---- MODULE Spec2Model ----
(***************************************************************************)
(* A model of css_to_rust: the CSS parser (parser.py, structured strategy  *)
(* with a regex fallback) and the value mapper (mappings.py).              *)
(*                                                                         *)
(* Text is a TLA+ string; TLC evaluates Len, \o and SubSeq on strings, so  *)
(* the regular expressions and str methods of the source are written out   *)
(* character by character.  A Python dict is a sequence of <<key, value>>  *)
(* pairs with distinct keys in insertion order; an Optional is <<>> (None) *)
(* or <<x>>.                                                               *)
(***************************************************************************)
EXTENDS Integers, Sequences, FiniteSets, TLC

----------------------------------------------------------------------------
(* str and dict primitives.  A local of the source that is read more than  *)
(* once is the parameter of the operator that continues the computation.   *)

None == <<>>

Some(x) == <<x>>

\* s[i-1:j] of Python with 1-based inclusive bounds, empty when out of range
Sub(s, i, j) ==
    IF i > j \/ i > Len(s) \/ j < 1 THEN ""
    ELSE SubSeq(s, i, IF j > Len(s) THEN Len(s) ELSE j)

Ch(s, i) == Sub(s, i, i)

\* the characters str.strip() removes and the regex class \s matches
IsSpace(c) == c \in {" ", "\n", "\t", "\r"}

\* s.startswith(p)
StartsWith(s, p) == Sub(s, 1, Len(p)) = p

\* p occurs in s at index j
Occurs(s, p, j) == Sub(s, j, j + Len(p) - 1) = p

\* s.find(p, i-1) + 1 : the first index >= i where p occurs in s, 0 when none
FindFrom(s, p, i) ==
    IF \E j \in i..(Len(s) - Len(p) + 1) : Occurs(s, p, j)
    THEN CHOOSE j \in i..(Len(s) - Len(p) + 1) :
             Occurs(s, p, j) /\ \A k \in i..(j - 1) : ~Occurs(s, p, k)
    ELSE 0

\* p in s
Contains(s, p) == \E j \in 1..(Len(s) - Len(p) + 1) : Occurs(s, p, j)

\* the character of s at index j is not whitespace
Solid(s, j) == ~IsSpace(Ch(s, j))

\* the first index >= i of a character of s that is not whitespace, 0 when none
FirstSolid(s, i) ==
    IF \E j \in i..Len(s) : Solid(s, j)
    THEN CHOOSE j \in i..Len(s) : Solid(s, j) /\ \A k \in i..(j - 1) : ~Solid(s, k)
    ELSE 0

\* the last index of a character of s that is not whitespace
LastSolid(s) == CHOOSE j \in 1..Len(s) : Solid(s, j) /\ \A k \in (j + 1)..Len(s) : ~Solid(s, k)

StripFromIndex(s, lo) == IF lo = 0 THEN "" ELSE Sub(s, lo, LastSolid(s))

\* s.strip(): from the first to the last character that is not whitespace
Strip(s) == StripFromIndex(s, FirstSolid(s, 1))

RECURSIVE Split(_, _)
\* s cut at index k, where sep occurs first (k = 0: it does not occur)
SplitAt(s, sep, k) ==
    IF k = 0 THEN <<s>>
    ELSE <<Sub(s, 1, k - 1)>> \o Split(Sub(s, k + Len(sep), Len(s)), sep)

\* s.split(sep): the pieces between the occurrences of sep
Split(s, sep) == SplitAt(s, sep, FindFrom(s, sep, 1))

Split1At(s, sep, k) ==
    IF k = 0 THEN <<s>> ELSE <<Sub(s, 1, k - 1), Sub(s, k + Len(sep), Len(s))>>

\* s.split(sep, 1)
Split1(s, sep) == Split1At(s, sep, FindFrom(s, sep, 1))

\* s.endswith(';')
EndsWithSemicolon(s) == s # "" /\ Ch(s, Len(s)) = ";"

RECURSIVE Replace(_, _)
ReplaceAt(s, old, k) ==
    IF k = 0 THEN s
    ELSE Sub(s, 1, k - 1) \o Replace(Sub(s, k + Len(old), Len(s)), old)

\* s.replace(old, ''): every non-overlapping occurrence of old removed, left to
\* right (old is never empty here)
Replace(s, old) == ReplaceAt(s, old, FindFrom(s, old, 1))

\* key in d
HasKey(d, k) == \E i \in 1..Len(d) : d[i][1] = k

\* d[k] for a key the dict holds
Get(d, k) == d[CHOOSE i \in 1..Len(d) : d[i][1] = k][2]

\* d[k] = v: a new key is appended, a known key keeps its place and takes v
DictSet(d, k, v) ==
    IF HasKey(d, k)
    THEN [i \in 1..Len(d) |-> IF d[i][1] = k THEN <<k, v>> ELSE d[i]]
    ELSE Append(d, <<k, v>>)

----------------------------------------------------------------------------
(* CssRule and CssKeyframe                                                 *)

CssRule(selector, properties, media_query, pseudo_selector, raw_css) ==
    [selector |-> selector, properties |-> properties, media_query |-> media_query,
     pseudo_selector |-> pseudo_selector, raw_css |-> raw_css]

CssKeyframe(name, kfs) == [name |-> name, keyframes |-> kfs]

----------------------------------------------------------------------------
(* The fallback strategy: _parse_with_regex and what it calls              *)

RECURSIVE StripComments(_)
StripFromTo(s, open, close) ==
    IF close = 0 THEN s
    ELSE Sub(s, 1, open - 1) \o StripComments(Sub(s, close + 2, Len(s)))

StripFrom(s, open) ==
    IF open = 0 THEN s ELSE StripFromTo(s, open, FindFrom(s, "*/", open + 2))

\* re.sub(r'/\*.*?\*/', '', css_content, flags=re.DOTALL): the leftmost "/*" that
\* a "*/" follows is removed up to the nearest such "*/", and so on to the right
StripComments(s) == StripFrom(s, FindFrom(s, "/*", 1))

SpaceRunTo(s, i, solid) ==
    IF solid # 0 THEN solid - i ELSE IF i > Len(s) THEN 0 ELSE Len(s) - i + 1

\* the number of whitespace characters of s from index i on
SpaceRun(s, i) == SpaceRunTo(s, i, FirstSolid(s, i))

IsBrace(s, j) == Ch(s, j) \in {"{", "}"}

\* the first brace of s, of either kind, at index i or later; 0 when none
NextBrace(s, i) ==
    IF \E j \in i..Len(s) : IsBrace(s, j)
    THEN CHOOSE j \in i..Len(s) : IsBrace(s, j) /\ \A k \in i..(j - 1) : ~IsBrace(s, k)
    ELSE 0

RECURSIVE BlockEnd(_, _, _)
BlockEndAt(s, b, inner) ==
    IF b = 0 THEN 0
    ELSE IF Ch(s, b) = "{" THEN (IF inner THEN 0 ELSE BlockEnd(s, b + 1, TRUE))
    ELSE IF inner THEN BlockEnd(s, b + 1, FALSE) ELSE b

\* [^{}]*(?:\{[^{}]*\}[^{}]*)*\} from index i: the index of the closing brace,
\* 0 when there is none; inner is TRUE inside one nested { }
BlockEnd(s, i, inner) == BlockEndAt(s, NextBrace(s, i), inner)

NoMatch == [ok |-> FALSE, g1 |-> "", g2 |-> "", end |-> 0]

Match(g1, g2, end) == [ok |-> TRUE, g1 |-> g1, g2 |-> g2, end |-> end]

AtRuleBody(s, g1, brace, close) ==
    IF close = 0 THEN NoMatch
    ELSE Match(Sub(s, g1, brace - 1), Sub(s, brace + 1, close - 1), close)

\* after the keyword, which ends before index q: w whitespace characters, then
\* group 1 up to the first brace
AtRuleGroups(s, q, w, brace) ==
    IF w = 0 \/ brace = 0 \/ (brace = q + w /\ w < 2) THEN NoMatch
    ELSE AtRuleBody(s, IF q + w < brace THEN q + w ELSE q + w - 1, brace,
                    BlockEnd(s, brace + 1, FALSE))

\* kw\s+([^{]+)\s*\{([^{}]*(?:\{[^{}]*\}[^{}]*)*)\} matched at index p of s, where
\* kw occurs: \s+ is greedy and gives one character back when [^{]+ would be
\* empty; [^{]+ is greedy, so group 1 runs to the brace, trailing whitespace
\* included, and \s* matches nothing
AtRuleMatch(s, kw, p) ==
    AtRuleGroups(s, p + Len(kw), SpaceRun(s, p + Len(kw)), FindFrom(s, "{", p + Len(kw)))

RECURSIVE AtRuleFindAll(_, _, _)
AtRuleTake(s, kw, start, m) ==
    IF m.ok THEN <<<<m.g1, m.g2>>>> \o AtRuleFindAll(s, kw, m.end + 1)
    ELSE AtRuleFindAll(s, kw, start + 1)

AtRuleFrom(s, kw, start) ==
    IF start = 0 THEN <<>> ELSE AtRuleTake(s, kw, start, AtRuleMatch(s, kw, start))

\* re.findall of the @media / @keyframes pattern from index p on: <<group 1,
\* group 2>> of each match
AtRuleFindAll(s, kw, p) == AtRuleFrom(s, kw, FindFrom(s, kw, p))

RuleBody(s, p, brace, close) ==
    IF close > brace + 1
    THEN Match(Sub(s, p, brace - 1), Sub(s, brace + 1, close - 1), close)
    ELSE [NoMatch EXCEPT !.end = close]

RECURSIVE RuleFindAll(_, _)
\* no match starts before the brace that made one fail, nor at it; none at all
\* once no "}" follows
RuleTake(s, brace, m) ==
    IF m.ok THEN <<<<m.g1, m.g2>>>> \o RuleFindAll(s, m.end + 1)
    ELSE IF m.end = 0 THEN <<>>
    ELSE RuleFindAll(s, brace + 1)

\* ([^{]+)\{([^}]+)\} tried at index p of s, whose next "{" is at brace
RuleFrom(s, p, brace) ==
    IF brace = 0 THEN <<>>
    ELSE IF brace = p THEN RuleFindAll(s, p + 1)
    ELSE RuleTake(s, brace, RuleBody(s, p, brace, FindFrom(s, "}", brace + 1)))

\* re.findall(r'([^{]+)\{([^}]+)\}', content) from index p on
RuleFindAll(s, p) == RuleFrom(s, p, FindFrom(s, "{", p))

\* properties[name] = value whatever the name and the value are
PropertySetUnchecked(properties, name, value) == DictSet(properties, name, value)

\* if name and value: properties[name] = value
PropertySet(properties, name, value) ==
    IF name # "" /\ value # "" THEN DictSet(properties, name, value) ELSE properties

PropertySplit(properties, nv) == PropertySet(properties, Strip(nv[1]), Strip(nv[2]))

\* one piece of the declaration list, stripped
PropertyOf(properties, prop_str) ==
    IF prop_str = "" \/ ~Contains(prop_str, ":") THEN properties
    ELSE PropertySplit(properties, Split1(prop_str, ":"))

RECURSIVE PropertiesOf(_, _, _)
\* the loop of _parse_properties_string over the pieces from index i on
PropertiesOf(pieces, i, properties) ==
    IF i > Len(pieces) THEN properties
    ELSE PropertiesOf(pieces, i + 1, PropertyOf(properties, Strip(pieces[i])))

ParsePropertiesString(properties_str) == PropertiesOf(Split(properties_str, ";"), 1, <<>>)

PseudoParts(parts) == <<Strip(parts[1]), Some(Strip(parts[2]))>>

\* the pseudo-selector split both strategies apply: <<selector, pseudo_selector>>
SplitPseudo(selector) ==
    IF Contains(selector, ":") /\ ~StartsWith(selector, ":root")
    THEN PseudoParts(Split1(selector, ":"))
    ELSE <<selector, None>>

RegexRule(sp, properties, media_query, properties_str) ==
    CssRule(sp[1], properties, media_query, sp[2], sp[1] \o " { " \o properties_str \o " }")

\* one match of _parse_rules_content: no rule, or one
RulesOfMatch(selector, properties_str, properties, media_query) ==
    IF selector = "" \/ properties = <<>> THEN <<>>
    ELSE <<RegexRule(SplitPseudo(selector), properties, media_query, properties_str)>>

RECURSIVE RulesOfMatchesReversed(_, _, _)
\* the loop of _parse_rules_content with every rule put in front of the list
RulesOfMatchesReversed(matches, i, media_query) ==
    IF i > Len(matches) THEN <<>>
    ELSE RulesOfMatchesReversed(matches, i + 1, media_query)
         \o RulesOfMatch(Strip(matches[i][1]), matches[i][2],
                         ParsePropertiesString(matches[i][2]), media_query)

RECURSIVE RulesOfMatches(_, _, _)
\* the loop of _parse_rules_content over the matches from index i on
RulesOfMatches(matches, i, media_query) ==
    IF i > Len(matches) THEN <<>>
    ELSE RulesOfMatch(Strip(matches[i][1]), matches[i][2],
                      ParsePropertiesString(matches[i][2]), media_query)
         \o RulesOfMatches(matches, i + 1, media_query)

ParseRulesContent(content, media_query) ==
    RulesOfMatches(RuleFindAll(content, 1), 1, media_query)

StageSet(stages, key, properties) ==
    IF properties # <<>> THEN DictSet(stages, key, properties) ELSE stages

RECURSIVE StagesOfMatches(_, _, _)
\* the loop of _parse_keyframes_content over the matches from index i on
StagesOfMatches(matches, i, stages) ==
    IF i > Len(matches) THEN stages
    ELSE StagesOfMatches(matches, i + 1,
             StageSet(stages, Strip(matches[i][1]), ParsePropertiesString(matches[i][2])))

KeyframeAppend(kfs, name, stages) ==
    IF stages # <<>> THEN Append(kfs, CssKeyframe(name, stages)) ELSE kfs

\* _parse_keyframes_content: self.keyframes after the call
ParseKeyframesContent(kfs, name, content) ==
    KeyframeAppend(kfs, name, StagesOfMatches(RuleFindAll(content, 1), 1, <<>>))

RECURSIVE KeyframesLoop(_, _, _, _)
\* the loop over keyframe_matches from index i on, then the regular rules of what
\* is left of css_content: the rules of the remaining text and self.keyframes
KeyframesLoop(matches, i, css, kfs) ==
    IF i > Len(matches) THEN [rules |-> ParseRulesContent(css, None), keyframes |-> kfs]
    ELSE KeyframesLoop(matches, i + 1,
             Replace(css, "@keyframes " \o matches[i][1] \o " {" \o matches[i][2] \o "}"),
             ParseKeyframesContent(kfs, Strip(matches[i][1]), Strip(matches[i][2])))

RegexResult(media_rules, rest, imps) ==
    [rules |-> media_rules \o rest.rules, keyframes |-> rest.keyframes,
     imports |-> imps, raised |-> FALSE]

RECURSIVE MediaLoop(_, _, _, _, _, _)
\* the loop over media_matches from index i on, then the rest of _parse_with_regex
MediaLoop(matches, i, css, media_rules, kfs, imps) ==
    IF i > Len(matches)
    THEN RegexResult(media_rules,
                     KeyframesLoop(AtRuleFindAll(css, "@keyframes", 1), 1, css, kfs), imps)
    ELSE MediaLoop(matches, i + 1,
             Replace(css, "@media " \o matches[i][1] \o " {" \o matches[i][2] \o "}"),
             media_rules \o ParseRulesContent(Strip(matches[i][2]), Some(Strip(matches[i][1]))),
             kfs, imps)

RegexOn(kfs, imps, stripped) ==
    MediaLoop(AtRuleFindAll(stripped, "@media", 1), 1, stripped, <<>>, kfs, imps)

\* _parse_with_regex on a parser whose keyframes and imports are kfs and imps:
\* the list returned, and the parser's fields after the call
ParseWithRegex(kfs, imps, css_content) == RegexOn(kfs, imps, StripComments(css_content))

----------------------------------------------------------------------------
(* The object model cssutils.parseString returns: a sheet is a sequence of *)
(* rule objects, each with the attributes parser.py reads from it          *)

StyleRule(selectorText, style) ==
    [type |-> "STYLE_RULE", selectorText |-> selectorText, style |-> style]

MediaRule(mediaText, cssRules) ==
    [type |-> "MEDIA_RULE", mediaText |-> mediaText, cssRules |-> cssRules]

KeyframeStage(keyText, style) == [keyText |-> keyText, style |-> style]

KeyframesRule(name, cssRules) ==
    [type |-> "KEYFRAMES_RULE", name |-> name, cssRules |-> cssRules]

ImportRule(href) == [type |-> "IMPORT_RULE", href |-> href]

Comment(text) == [type |-> "COMMENT", text |-> text]

RECURSIVE StyleText(_, _)
\* the declarations of a style up to index i, as written in a stylesheet
StyleText(style, i) ==
    IF i = 0 THEN ""
    ELSE StyleText(style, i - 1) \o style[i][1] \o ": " \o style[i][2] \o "; "

RECURSIVE StagesText(_, _)
StagesText(stages, i) ==
    IF i = 0 THEN ""
    ELSE StagesText(stages, i - 1) \o stages[i].keyText \o " { "
             \o StyleText(stages[i].style, Len(stages[i].style)) \o "} "

RECURSIVE NestedText(_, _)
NestedText(cssRules, i) ==
    IF i = 0 THEN ""
    ELSE NestedText(cssRules, i - 1) \o cssRules[i].selectorText \o " { "
             \o StyleText(cssRules[i].style, Len(cssRules[i].style)) \o "} "

\* rule.cssText: the source text of one rule object
CssText(rule) ==
    CASE rule.type = "STYLE_RULE" ->
            rule.selectorText \o " { " \o StyleText(rule.style, Len(rule.style)) \o "}"
      [] rule.type = "MEDIA_RULE" ->
            "@media " \o rule.mediaText \o " { "
                \o NestedText(rule.cssRules, Len(rule.cssRules)) \o "}"
      [] rule.type = "KEYFRAMES_RULE" ->
            "@keyframes " \o rule.name \o " { "
                \o StagesText(rule.cssRules, Len(rule.cssRules)) \o "}"
      [] rule.type = "IMPORT_RULE" -> "@import url(" \o rule.href \o ");"
      [] OTHER -> "/* " \o rule.text \o " */"

RECURSIVE SheetText(_, _)
\* the stylesheet text whose object model is the sheet, up to rule i
SheetText(sheet, i) ==
    IF i = 0 THEN ""
    ELSE IF i = 1 THEN CssText(sheet[1])
    ELSE SheetText(sheet, i - 1) \o " " \o CssText(sheet[i])

----------------------------------------------------------------------------
(* A call's fault: where, if anywhere, the structured library raises.      *)
(*   none                 nothing raises                                    *)
(*   parseString          cssutils.parseString raises                       *)
(*   walk at i            an attribute read of top-level rule i outside the *)
(*                        per-rule try raises (rule.type, rule.media, ...)  *)
(*   rule at i, nested j  a read inside the try of _parse_style_rule or     *)
(*                        _parse_keyframes_rule raises, for top-level rule  *)
(*                        i (j = 0) or for nested rule j of media rule i    *)

NoFault == [kind |-> "none", at |-> 0, nested |-> 0]

FaultsOf(sheet) ==
    {NoFault, [kind |-> "parseString", at |-> 0, nested |-> 0]}
    \cup {[kind |-> "walk", at |-> i, nested |-> 0] : i \in 1..Len(sheet)}
    \cup {[kind |-> "rule", at |-> i, nested |-> 0] :
              i \in {k \in 1..Len(sheet) : sheet[k].type \in {"STYLE_RULE", "KEYFRAMES_RULE"}}}
    \cup UNION {{[kind |-> "rule", at |-> i, nested |-> j] : j \in 1..Len(sheet[i].cssRules)} :
              i \in {k \in 1..Len(sheet) : sheet[k].type = "MEDIA_RULE"}}

RuleFails(fault, i, j) == fault.kind = "rule" /\ fault.at = i /\ fault.nested = j

----------------------------------------------------------------------------
(* The primary strategy: _parse_with_cssutils and what it calls            *)

RECURSIVE StyleProperties(_, _, _)
\* the loop of _parse_style_rule over rule.style from index i on
StyleProperties(style, i, properties) ==
    IF i > Len(style) THEN properties
    ELSE StyleProperties(style, i + 1, PropertySet(properties, style[i][1], style[i][2]))

StyleRuleOf(rule, sp, properties) ==
    IF properties = <<>> THEN None
    ELSE Some(CssRule(sp[1], properties, None, sp[2], CssText(rule)))

\* _parse_style_rule without its try / except: the failure is not caught and the
\* rule is built all the same
ParseStyleRuleUnguarded(rule, fails) ==
    StyleRuleOf(rule, SplitPseudo(Strip(rule.selectorText)),
                StyleProperties(rule.style, 1, <<>>))

\* _parse_style_rule: None or the CssRule
ParseStyleRule(rule, fails) ==
    IF fails THEN None
    ELSE StyleRuleOf(rule, SplitPseudo(Strip(rule.selectorText)),
                     StyleProperties(rule.style, 1, <<>>))

\* css_rule.media_query = media_query, when there is a css_rule
WithMedia(css_rule, media_query) ==
    IF css_rule = None THEN <<>>
    ELSE <<[css_rule[1] EXCEPT !.media_query = Some(media_query)]>>

RECURSIVE ParseMediaRule(_, _, _, _)
\* _parse_media_rule: the loop over the nested rules from index j on, for the
\* media rule at index at of the sheet
ParseMediaRule(rule, j, at, fault) ==
    IF j > Len(rule.cssRules) THEN <<>>
    ELSE IF rule.cssRules[j].type # "STYLE_RULE" THEN ParseMediaRule(rule, j + 1, at, fault)
    ELSE WithMedia(ParseStyleRule(rule.cssRules[j], RuleFails(fault, at, j)), rule.mediaText)
         \o ParseMediaRule(rule, j + 1, at, fault)

RECURSIVE StageProperties(_, _, _)
\* the inner loop of _parse_keyframes_rule over a stage's style from index i on
StageProperties(style, i, properties) ==
    IF i > Len(style) THEN properties
    ELSE StageProperties(style, i + 1, DictSet(properties, style[i][1], style[i][2]))

RECURSIVE StageDict(_, _, _)
\* the loop of _parse_keyframes_rule over the stages from index i on
StageDict(stages, i, kfs) ==
    IF i > Len(stages) THEN kfs
    ELSE StageDict(stages, i + 1,
             StageSet(kfs, stages[i].keyText, StageProperties(stages[i].style, 1, <<>>)))

\* _parse_keyframes_rule: None or the CssKeyframe
ParseKeyframesRule(rule, fails) ==
    IF fails THEN None
    ELSE Some(CssKeyframe(rule.name, StageDict(rule.cssRules, 1, <<>>)))

\* one turn of the loop of _parse_with_cssutils, for the rule at index i
WalkRule(acc, rule, i, fault) ==
    IF fault.kind = "walk" /\ fault.at = i THEN [acc EXCEPT !.raised = TRUE]
    ELSE IF rule.type = "STYLE_RULE"
         THEN [acc EXCEPT !.rules = @ \o ParseStyleRule(rule, RuleFails(fault, i, 0))]
    ELSE IF rule.type = "MEDIA_RULE"
         THEN [acc EXCEPT !.rules = @ \o ParseMediaRule(rule, 1, i, fault)]
    ELSE IF rule.type = "KEYFRAMES_RULE"
         THEN [acc EXCEPT !.keyframes = @ \o ParseKeyframesRule(rule, RuleFails(fault, i, 0))]
    ELSE IF rule.type = "IMPORT_RULE"
         THEN [acc EXCEPT !.imports = Append(@, rule.href)]
    ELSE acc

RECURSIVE WalkSheet(_, _, _, _)
\* the loop of _parse_with_cssutils over the sheet's rules from index i on; acc
\* holds the local rules and the parser's keyframes and imports so far
WalkSheet(sheet, i, fault, acc) ==
    IF i > Len(sheet) \/ acc.raised THEN acc
    ELSE WalkSheet(sheet, i + 1, fault, WalkRule(acc, sheet[i], i, fault))

\* _parse_with_cssutils: what it returned (or that it raised) and the parser's fields
ParseWithCssutils(kfs, imps, sheet, fault) ==
    WalkSheet(sheet, 1, fault,
              [rules |-> <<>>, keyframes |-> kfs, imports |-> imps,
               raised |-> fault.kind = "parseString"])

\* parse without its three opening assignments
KeepRecorded(self) == self

\* the three assignments that open parse
ResetParser(self) == [rules |-> <<>>, keyframes |-> <<>>, imports |-> <<>>]

\* parse without its except clause
NoFallback(primary, css) == primary

\* except Exception: the fallback runs on the fields the primary strategy left
Fallback(primary, css) ==
    IF primary.raised THEN ParseWithRegex(primary.keyframes, primary.imports, css)
    ELSE primary

\* the try / except of parse on the reset parser
TryParse(self, css, sheet, fault) ==
    Fallback(ParseWithCssutils(self.keyframes, self.imports, sheet, fault), css)

\* parse: the list returned and the parser's fields after the call
ParseCall(self, css, sheet, fault) == TryParse(ResetParser(self), css, sheet, fault)

----------------------------------------------------------------------------
(* ValueMappings: the table and map_value                                  *)

\* a JSON / Python value that is a dict, its items in insertion order
JDict(items) == [kind |-> "dict", items |-> items]

\* a JSON / Python value that is a string
JStr(text) == [kind |-> "str", text |-> text]

RECURSIVE DictItems(_, _, _)
\* the items of a dict display or of dict.update from index i on, stored into d
DictItems(pairs, i, d) ==
    IF i > Len(pairs) THEN d
    ELSE DictItems(pairs, i + 1, DictSet(d, pairs[i][1], pairs[i][2]))

\* a dict display read right to left
DictLiteralReversed(pairs) ==
    DictItems([i \in 1..Len(pairs) |-> pairs[Len(pairs) + 1 - i]], 1, <<>>)

\* a dict display { k: v, ... }: the items are stored left to right
DictLiteral(pairs) == DictItems(pairs, 1, <<>>)

DefaultColors ==
    << <<"#007bff", "var(--color-primary)">>,
       <<"#0056b3", "var(--color-primary-hover)">>,
       <<"#004085", "var(--color-primary-active)">>,
       <<"#6c757d", "var(--color-secondary)">>,
       <<"#545b62", "var(--color-secondary-hover)">>,
       <<"#4e555b", "var(--color-secondary-active)">>,
       <<"#28a745", "var(--color-success)">>,
       <<"#1e7e34", "var(--color-success-hover)">>,
       <<"#dc3545", "var(--color-error)">>,
       <<"#c82333", "var(--color-error-hover)">>,
       <<"#ffc107", "var(--color-warning)">>,
       <<"#e0a800", "var(--color-warning-hover)">>,
       <<"#212529", "var(--color-text-primary)">>,
       <<"#6c757d", "var(--color-text-secondary)">>,
       <<"#adb5bd", "var(--color-text-muted)">>,
       <<"#ffffff", "var(--color-text-on-primary)">>,
       <<"#ffffff", "var(--color-background)">>,
       <<"#f8f9fa", "var(--color-surface)">>,
       <<"#e9ecef", "var(--color-surface-hover)">>,
       <<"#dee2e6", "var(--color-border)">>,
       <<"#adb5bd", "var(--color-border-hover)">>,
       <<"white", "var(--color-background)">>,
       <<"black", "var(--color-text-primary)">>,
       <<"transparent", "transparent">> >>

DefaultSpacing ==
    << <<"2px", "var(--spacing-xs)">>,
       <<"4px", "var(--spacing-xs)">>,
       <<"8px", "var(--spacing-sm)">>,
       <<"12px", "var(--spacing-md)">>,
       <<"16px", "var(--spacing-md)">>,
       <<"20px", "var(--spacing-lg)">>,
       <<"24px", "var(--spacing-lg)">>,
       <<"32px", "var(--spacing-xl)">>,
       <<"40px", "var(--spacing-xxl)">>,
       <<"48px", "var(--spacing-xxl)">>,
       <<"0.125rem", "var(--spacing-xs)">>,
       <<"0.25rem", "var(--spacing-xs)">>,
       <<"0.5rem", "var(--spacing-sm)">>,
       <<"0.75rem", "var(--spacing-md)">>,
       <<"1rem", "var(--spacing-md)">>,
       <<"1.25rem", "var(--spacing-lg)">>,
       <<"1.5rem", "var(--spacing-lg)">>,
       <<"2rem", "var(--spacing-xl)">>,
       <<"2.5rem", "var(--spacing-xxl)">>,
       <<"3rem", "var(--spacing-xxl)">> >>

DefaultBorderRadius ==
    << <<"2px", "var(--border-radius-sm)">>,
       <<"4px", "var(--border-radius-sm)">>,
       <<"6px", "var(--border-radius-md)">>,
       <<"8px", "var(--border-radius-md)">>,
       <<"12px", "var(--border-radius-lg)">>,
       <<"16px", "var(--border-radius-lg)">>,
       <<"50%", "50%">>,
       <<"9999px", "var(--border-radius-full)">>,
       <<"0.125rem", "var(--border-radius-sm)">>,
       <<"0.25rem", "var(--border-radius-sm)">>,
       <<"0.375rem", "var(--border-radius-md)">>,
       <<"0.5rem", "var(--border-radius-md)">>,
       <<"0.75rem", "var(--border-radius-lg)">>,
       <<"1rem", "var(--border-radius-lg)">> >>

DefaultFontSizes ==
    << <<"12px", "var(--font-size-xs)">>,
       <<"14px", "var(--font-size-sm)">>,
       <<"16px", "var(--font-size-md)">>,
       <<"18px", "var(--font-size-lg)">>,
       <<"20px", "var(--font-size-xl)">>,
       <<"24px", "var(--font-size-xxl)">>,
       <<"0.75rem", "var(--font-size-xs)">>,
       <<"0.875rem", "var(--font-size-sm)">>,
       <<"1rem", "var(--font-size-md)">>,
       <<"1.125rem", "var(--font-size-lg)">>,
       <<"1.25rem", "var(--font-size-xl)">>,
       <<"1.5rem", "var(--font-size-xxl)">> >>

DefaultFontWeights ==
    << <<"300", "var(--font-weight-light)">>,
       <<"400", "var(--font-weight-normal)">>,
       <<"500", "var(--font-weight-medium)">>,
       <<"600", "var(--font-weight-semibold)">>,
       <<"700", "var(--font-weight-bold)">>,
       <<"800", "var(--font-weight-extrabold)">>,
       <<"light", "var(--font-weight-light)">>,
       <<"normal", "var(--font-weight-normal)">>,
       <<"medium", "var(--font-weight-medium)">>,
       <<"semibold", "var(--font-weight-semibold)">>,
       <<"bold", "var(--font-weight-bold)">> >>

DefaultShadows ==
    << <<"0 1px 3px rgba(0,0,0,0.1)", "var(--shadow-sm)">>,
       <<"0 4px 6px rgba(0,0,0,0.1)", "var(--shadow-md)">>,
       <<"0 10px 15px rgba(0,0,0,0.1)", "var(--shadow-lg)">>,
       <<"0 20px 25px rgba(0,0,0,0.1)", "var(--shadow-xl)">>,
       <<"none", "none">> >>

DefaultTransitions ==
    << <<"0.15s", "var(--transition-fast)">>,
       <<"0.2s", "var(--transition-fast)">>,
       <<"0.3s", "var(--transition-normal)">>,
       <<"0.5s", "var(--transition-slow)">>,
       <<"150ms", "var(--transition-fast)">>,
       <<"200ms", "var(--transition-fast)">>,
       <<"300ms", "var(--transition-normal)">>,
       <<"500ms", "var(--transition-slow)">> >>

DefaultBreakpoints ==
    << <<"576px", "var(--breakpoint-sm)">>,
       <<"768px", "var(--breakpoint-md)">>,
       <<"992px", "var(--breakpoint-lg)">>,
       <<"1200px", "var(--breakpoint-xl)">>,
       <<"1400px", "var(--breakpoint-xxl)">> >>

\* _load_default_mappings: the dict display, category by category, as written
LoadDefaultMappings ==
    DictLiteral(<< <<"colors", JDict(DictLiteral(DefaultColors))>>,
                   <<"spacing", JDict(DictLiteral(DefaultSpacing))>>,
                   <<"border_radius", JDict(DictLiteral(DefaultBorderRadius))>>,
                   <<"font_sizes", JDict(DictLiteral(DefaultFontSizes))>>,
                   <<"font_weights", JDict(DictLiteral(DefaultFontWeights))>>,
                   <<"shadows", JDict(DictLiteral(DefaultShadows))>>,
                   <<"transitions", JDict(DictLiteral(DefaultTransitions))>>,
                   <<"breakpoints", JDict(DictLiteral(DefaultBreakpoints))>> >>)

\* self.mappings[category] = values, whether or not the category is known
MergeReplace(mappings, category, values) == DictSet(mappings, category, values)

\* self.mappings[category].update(values), or self.mappings[category] = values
MergeCategory(mappings, category, values) ==
    IF HasKey(mappings, category)
    THEN DictSet(mappings, category,
                 JDict(DictItems(values.items, 1, Get(mappings, category).items)))
    ELSE DictSet(mappings, category, values)

RECURSIVE MergeMappings(_, _, _)
\* _merge_mappings: the loop over custom_mappings.items() from index i on
MergeMappings(mappings, custom_mappings, i) ==
    IF i > Len(custom_mappings) THEN mappings
    ELSE MergeMappings(MergeCategory(mappings, custom_mappings[i][1], custom_mappings[i][2]),
                       custom_mappings, i + 1)

\* ValueMappings.__init__: custom is None when there is no config file, else the
\* loaded file
NewValueMappings(custom) ==
    IF custom = None THEN LoadDefaultMappings
    ELSE MergeMappings(LoadDefaultMappings, custom[1], 1)

\* JSON values that are no object: an array, null, a number
JList == [kind |-> "list"]

JNull == [kind |-> "null"]

JNum == [kind |-> "num"]

\* the file behind config_path: there is no path ("none"), no file at the path
\* ("missing"), a file that goes away before it is opened ("vanished"), one that
\* open() refuses ("unreadable"), one whose bytes are not UTF-8 ("undecodable"),
\* one whose text is not JSON ("invalid"), or one holding a JSON value ("json")
ConfigFile(kind) == [kind |-> kind, json |-> JNull]

JsonFile(json) == [kind |-> "json", json |-> json]

\* the file a loaded configuration came from
FileOf(custom) == IF custom = None THEN ConfigFile("none") ELSE JsonFile(JDict(custom[1]))

\* what _load_custom_mappings does with the file: it returns a value or an
\* exception leaves it
Loaded(value) == [raised |-> FALSE, value |-> value]

LoadRaised == [raised |-> TRUE, value |-> JNull]

\* _load_custom_mappings: json.load of the opened file; only JSONDecodeError and
\* FileNotFoundError are caught and turned into {}
LoadCustomMappings(file) ==
    CASE file.kind = "json" -> Loaded(file.json)
      [] file.kind \in {"invalid", "vanished"} -> Loaded(JDict(<<>>))
      [] file.kind \in {"unreadable", "undecodable"} -> LoadRaised

\* a ValueMappings that was constructed, or the exception that left __init__
Built(mappings, custom) == [raised |-> FALSE, mappings |-> mappings, custom |-> custom]

NotBuilt == [raised |-> TRUE, mappings |-> <<>>, custom |-> None]

\* dict.update(values) raises for a value that is no mapping and no iterable of
\* pairs: a number, null, a non-empty string
UpdateRaises(values) == values.kind # "dict"

RECURSIVE MergeLoop(_, _, _, _)
\* _merge_mappings: the loop over custom_mappings.items() from index i on, with
\* the exceptions of dict.update
MergeLoop(mappings, items, i, custom) ==
    IF i > Len(items) THEN Built(mappings, custom)
    ELSE IF HasKey(mappings, items[i][1]) /\ UpdateRaises(items[i][2]) THEN NotBuilt
    ELSE MergeLoop(MergeCategory(mappings, items[i][1], items[i][2]), items, i + 1, custom)

\* _merge_mappings(custom_mappings): custom_mappings.items() raises for a value
\* that is no dict
MergeLoaded(mappings, loaded) ==
    IF loaded.raised THEN NotBuilt
    ELSE IF loaded.value.kind # "dict" THEN NotBuilt
    ELSE MergeLoop(mappings, loaded.value.items, 1, Some(loaded.value.items))

\* ValueMappings.__init__(config_path)
Construct(file) ==
    IF file.kind \in {"none", "missing"} THEN Built(LoadDefaultMappings, None)
    ELSE MergeLoaded(LoadDefaultMappings, LoadCustomMappings(file))

\* an entry of the dict get_mappings returned: the very table self.mappings holds
\* for the category (dict.copy is shallow), or a value the caller put there
Alias == [shared |-> TRUE, value |-> JNull]

Own(value) == [shared |-> FALSE, value |-> value]

\* get_mappings: self.mappings.copy()
GetMappingsOf(mappings) == [i \in 1..Len(mappings) |-> <<mappings[i][1], Alias>>]

\* table[key] = token on a table that is a dict
TableSet(table, key, token) == JDict(DictSet(table.items, key, token))

LowerCh(c) ==
    CASE c = "A" -> "a" [] c = "B" -> "b" [] c = "C" -> "c" [] c = "D" -> "d"
      [] c = "E" -> "e" [] c = "F" -> "f" [] c = "G" -> "g" [] c = "H" -> "h"
      [] c = "I" -> "i" [] c = "J" -> "j" [] c = "K" -> "k" [] c = "L" -> "l"
      [] c = "M" -> "m" [] c = "N" -> "n" [] c = "O" -> "o" [] c = "P" -> "p"
      [] c = "Q" -> "q" [] c = "R" -> "r" [] c = "S" -> "s" [] c = "T" -> "t"
      [] c = "U" -> "u" [] c = "V" -> "v" [] c = "W" -> "w" [] c = "X" -> "x"
      [] c = "Y" -> "y" [] c = "Z" -> "z" [] OTHER -> c

RECURSIVE Lower(_)
\* s.lower()
Lower(s) == IF s = "" THEN "" ELSE LowerCh(Ch(s, 1)) \o Lower(Sub(s, 2, Len(s)))

\* the if / elif chain of _get_category_for_property on the lower-cased name
CategoryOf(property_name) ==
    IF Contains(property_name, "color") \/ Contains(property_name, "background")
    THEN Some("colors")
    ELSE IF \/ Contains(property_name, "padding") \/ Contains(property_name, "margin")
            \/ Contains(property_name, "gap") \/ Contains(property_name, "spacing")
    THEN Some("spacing")
    ELSE IF Contains(property_name, "border-radius") \/ property_name = "border-radius"
    THEN Some("border_radius")
    ELSE IF Contains(property_name, "font-size") THEN Some("font_sizes")
    ELSE IF Contains(property_name, "font-weight") THEN Some("font_weights")
    ELSE IF Contains(property_name, "box-shadow") \/ Contains(property_name, "shadow")
    THEN Some("shadows")
    ELSE IF Contains(property_name, "transition") THEN Some("transitions")
    ELSE IF \/ Contains(property_name, "width") \/ Contains(property_name, "max-width")
            \/ Contains(property_name, "min-width")
    THEN Some("breakpoints")
    ELSE None

\* the chain with its last test, for 'width', made first
CategoryWidthFirst(property_name) ==
    IF Contains(Lower(property_name), "width") THEN Some("breakpoints")
    ELSE CategoryOf(Lower(property_name))

\* _get_category_for_property
GetCategoryForProperty(property_name) == CategoryOf(Lower(property_name))

\* d.get(key, default)
GetOr(d, key, default) == IF HasKey(d, key) THEN Get(d, key) ELSE default

RECURSIVE ScanBackwards(_, _, _)
\* the categories tried from the last one to the first
ScanBackwards(mappings, i, value) ==
    IF i > Len(mappings) THEN value
    ELSE IF /\ mappings[Len(mappings) + 1 - i][2].kind = "dict"
            /\ HasKey(mappings[Len(mappings) + 1 - i][2].items, value)
         THEN Get(mappings[Len(mappings) + 1 - i][2].items, value)
    ELSE ScanBackwards(mappings, i + 1, value)

RECURSIVE ScanCategories(_, _, _)
\* the loop of map_value over self.mappings.values() from index i on, and the
\* return that follows it
ScanCategories(mappings, i, value) ==
    IF i > Len(mappings) THEN value
    ELSE IF mappings[i][2].kind = "dict" /\ HasKey(mappings[i][2].items, value)
         THEN Get(mappings[i][2].items, value)
    ELSE ScanCategories(mappings, i + 1, value)

\* map_value that looks the value up in every category, classified or not
LookupAnywhere(mappings, category, value) == ScanCategories(mappings, 1, value)

\* map_value once the value is stripped and the category determined
Lookup(mappings, category, value) ==
    IF category # None /\ HasKey(mappings, category[1])
    THEN GetOr(Get(mappings, category[1]).items, value, value)
    ELSE ScanCategories(mappings, 1, value)

\* map_value
MapValueOf(mappings, property_name, value) ==
    Lookup(mappings, GetCategoryForProperty(property_name), Strip(value))

----------------------------------------------------------------------------
(* The classifier: component names, variant keys and function names        *)

IsLetter(c) ==
    LowerCh(c) \in {"a", "b", "c", "d", "e", "f", "g", "h", "i", "j", "k", "l", "m", "n",
                    "o", "p", "q", "r", "s", "t", "u", "v", "w", "x", "y", "z"}

IsDigit(c) == c \in {"0", "1", "2", "3", "4", "5", "6", "7", "8", "9"}

\* the regex class [a-zA-Z0-9_]
IsWordCh(c) == IsLetter(c) \/ IsDigit(c) \/ c = "_"

RECURSIVE LStripFrom(_, _, _)
LStripFrom(s, chars, i) ==
    IF i > Len(s) THEN ""
    ELSE IF Ch(s, i) \in chars THEN LStripFrom(s, chars, i + 1)
    ELSE Sub(s, i, Len(s))

\* s.lstrip(chars)
LStrip(s, chars) == LStripFrom(s, chars, 1)

\* the regex class [-_\s]
IsDelimiter(c) == c \in {"-", "_"} \/ IsSpace(c)

RECURSIVE ReSplitFrom(_, _, _, _)
\* re.split(r'[-_\s]', s): the pieces between the delimiters, from index i on,
\* the piece in progress starting at start
ReSplitFrom(s, i, start, words) ==
    IF i > Len(s) THEN Append(words, Sub(s, start, Len(s)))
    ELSE IF IsDelimiter(Ch(s, i))
    THEN ReSplitFrom(s, i + 1, i + 1, Append(words, Sub(s, start, i - 1)))
    ELSE ReSplitFrom(s, i + 1, start, words)

\* if words: return words[0].lower(); return 'component'
ComponentOfWords(words) == IF words # <<>> THEN Lower(words[1]) ELSE "component"

\* the prefix chain of _extract_component_name on the stripped selector
ComponentOf(selector) ==
    IF StartsWith(selector, "btn") THEN "button"
    ELSE IF StartsWith(selector, "card") THEN "card"
    ELSE IF StartsWith(selector, "nav") THEN "navbar"
    ELSE IF StartsWith(selector, "modal") THEN "modal"
    ELSE IF StartsWith(selector, "form") THEN "form"
    ELSE IF StartsWith(selector, "input") THEN "input"
    ELSE IF StartsWith(selector, "table") THEN "table"
    ELSE IF StartsWith(selector, "alert") THEN "alert"
    ELSE ComponentOfWords(ReSplitFrom(selector, 1, 1, <<>>))

\* _extract_component_name
ExtractComponentName(selector) == ComponentOf(LStrip(selector, {".", " "}))

\* groups[key].append(rule), the list created when the key is new
\* components[component_name] = [rule] whether or not the key is there
GroupReplace(groups, key, rule) ==
    IF HasKey(groups, key) THEN DictSet(groups, key, <<rule>>)
    ELSE Append(groups, <<key, <<rule>>>>)

GroupAppend(groups, key, rule) ==
    IF HasKey(groups, key) THEN DictSet(groups, key, Append(Get(groups, key), rule))
    ELSE Append(groups, <<key, <<rule>>>>)

RECURSIVE GroupLoop(_, _, _)
GroupLoop(rules, i, components) ==
    IF i > Len(rules) THEN components
    ELSE GroupLoop(rules, i + 1,
                   GroupAppend(components, ExtractComponentName(rules[i].selector), rules[i]))

\* group_rules_by_component
GroupRulesByComponent(rules) == GroupLoop(rules, 1, <<>>)

RECURSIVE LetterRunEnd(_, _)
\* where the match of [a-zA-Z]+ that starts at index i of s ends (i - 1: no match)
LetterRunEnd(s, i) ==
    IF i <= Len(s) /\ IsLetter(Ch(s, i)) THEN LetterRunEnd(s, i + 1) ELSE i - 1

\* the alternatives of the first three variant_patterns, in order
VariantPatterns ==
    << <<"primary", "secondary", "success", "danger", "warning", "info", "light", "dark">>,
       <<"small", "sm", "large", "lg", "xl", "xs">>,
       <<"outline", "solid", "ghost", "link">> >>

RECURSIVE FirstAlternative(_, _, _, _)
\* the first alternative from index a on that s continues with at index j,
\* letter case ignored
FirstAlternative(s, j, alts, a) ==
    IF a > Len(alts) THEN None
    ELSE IF Lower(Sub(s, j, j + Len(alts[a]) - 1)) = alts[a] THEN Some(alts[a])
    ELSE FirstAlternative(s, j, alts, a + 1)

\* the generic pattern ([a-zA-Z]+)[-_]([a-zA-Z]+): the name ends at e, the second
\* group at e2
GenericMatch(s, e, e2) ==
    IF e2 >= e + 2 THEN Some(<<Lower(Sub(s, 1, e)), Lower(Sub(s, e + 2, e2))>>) ELSE None

RECURSIVE VariantLoop(_, _, _)
\* pattern k matched its second group v, or the loop goes on
VariantTry(s, e, k, v) ==
    IF v # None THEN Some(<<Lower(Sub(s, 1, e)), v[1]>>) ELSE VariantLoop(s, e, k + 1)

\* the loop over variant_patterns from pattern k on, re.match with IGNORECASE;
\* the name group ends at e and a '-' or '_' follows it
VariantLoop(s, e, k) ==
    IF k > Len(VariantPatterns) THEN GenericMatch(s, e, LetterRunEnd(s, e + 2))
    ELSE VariantTry(s, e, k, FirstAlternative(s, e + 2, VariantPatterns[k], 1))

\* return match.group(1).lower(), match.group(2).lower(), or
\* return clean_selector.lower(), None
VariantResult(s, m) == IF m = None THEN <<Lower(s), None>> ELSE <<m[1][1], Some(m[1][2])>>

\* every pattern begins ([a-zA-Z]+)[-_]: a run of letters ending at e, then '-' or '_'
SplitClean(s, e) ==
    IF e >= 1 /\ Ch(s, e + 1) \in {"-", "_"} THEN VariantResult(s, VariantLoop(s, e, 1))
    ELSE <<Lower(s), None>>

SplitCleanSelector(clean_selector) == SplitClean(clean_selector, LetterRunEnd(clean_selector, 1))

\* _split_variant_name: <<base_name, variant_name>>
SplitVariantName(selector) == SplitCleanSelector(LStrip(selector, {".", " "}))

\* the key extract_variants files a rule under
VariantKey(bv) == IF bv[2] # None THEN bv[1] \o "_" \o bv[2][1] ELSE bv[1]

RECURSIVE VariantsLoop(_, _, _)
VariantsLoop(rules, i, variants) ==
    IF i > Len(rules) THEN variants
    ELSE VariantsLoop(rules, i + 1,
                      GroupAppend(variants, VariantKey(SplitVariantName(rules[i].selector)),
                                  rules[i]))

\* extract_variants
ExtractVariants(rules) == VariantsLoop(rules, 1, <<>>)

RECURSIVE SpacesToUnderscores(_)
\* s.replace(' ', '_')
SpacesToUnderscores(s) ==
    IF s = "" THEN ""
    ELSE (IF Ch(s, 1) = " " THEN "_" ELSE Ch(s, 1)) \o SpacesToUnderscores(Sub(s, 2, Len(s)))

RECURSIVE SubNonWord(_)
\* re.sub(r'[^a-zA-Z0-9_]', '_', s)
SubNonWord(s) ==
    IF s = "" THEN ""
    ELSE (IF IsWordCh(Ch(s, 1)) THEN Ch(s, 1) ELSE "_") \o SubNonWord(Sub(s, 2, Len(s)))

\* a text whose runs of '_' are left as they are
KeepUnderscores(s) == s

RECURSIVE CollapseUnderscores(_)
\* re.sub(r'_+', '_', s)
CollapseUnderscores(s) ==
    IF s = "" THEN ""
    ELSE IF Sub(s, 1, 2) = "__" THEN CollapseUnderscores(Sub(s, 2, Len(s)))
    ELSE Ch(s, 1) \o CollapseUnderscores(Sub(s, 2, Len(s)))

RECURSIVE StripUnderscores(_)
\* s.strip('_')
StripUnderscores(s) ==
    IF Ch(s, 1) = "_" THEN StripUnderscores(Sub(s, 2, Len(s)))
    ELSE IF Ch(s, Len(s)) = "_" THEN StripUnderscores(Sub(s, 1, Len(s) - 1))
    ELSE s

\* the "clean selector" lines of get_function_name_from_selector
CleanSelector(selector) ==
    StripUnderscores(CollapseUnderscores(SubNonWord(
        SpacesToUnderscores(Replace(Replace(selector, "."), "#")))))

\* if pseudo_selector: name = f"{name}_{pseudo_clean}"
WithPseudo(name, pseudo_selector) ==
    IF pseudo_selector # None /\ pseudo_selector # Some("")
    THEN name \o "_" \o SubNonWord(pseudo_selector[1])
    ELSE name

\* the 'style_' prefix, and name.lower() if name else 'style'
FinishName(name) ==
    IF name = "" THEN "style"
    ELSE IF IsLetter(Ch(name, 1)) \/ Ch(name, 1) = "_" THEN Lower(name)
    ELSE Lower("style_" \o name)

\* get_function_name_from_selector(selector, pseudo_selector)
GetFunctionNameFromSelector(selector, pseudo_selector) ==
    FinishName(WithPseudo(CleanSelector(selector), pseudo_selector))

----------------------------------------------------------------------------
(* The generator: from rules to the text of a Rust function                *)

RECURSIVE Join(_, _, _)
\* sep.join(parts), from part i on
Join(parts, sep, i) ==
    IF i > Len(parts) THEN ""
    ELSE IF i = Len(parts) THEN parts[i]
    ELSE parts[i] \o sep \o Join(parts, sep, i + 1)

RECURSIVE PropertiesStr(_, _, _)
\* the loop of _rule_to_css_string over the properties from index i on
PropertiesStr(properties, i, indent) ==
    IF i > Len(properties) THEN ""
    ELSE "\n" \o indent \o "    " \o properties[i][1] \o ": " \o properties[i][2] \o ";"
         \o PropertiesStr(properties, i + 1, indent)

\* the selector _rule_to_css_string writes for the rule
RuleSelector(rule) ==
    IF rule.pseudo_selector # None /\ rule.pseudo_selector # Some("")
    THEN "&:" \o rule.pseudo_selector[1]
    ELSE IF StartsWith(rule.selector, ".") THEN "" ELSE "&"

\* _rule_to_css_string(rule, indent)
RuleToCssString(rule, indent) ==
    IF rule.properties = <<>> THEN ""
    ELSE indent \o RuleSelector(rule) \o " {" \o PropertiesStr(rule.properties, 1, indent)
         \o "\n" \o indent \o "}"

\* if rule.media_query
MediaBound(rule) == rule.media_query # None /\ rule.media_query # Some("")

RECURSIVE RegularParts(_, _)
\* the css_parts of the rules without media query, from rule i on
RegularParts(rules, i) ==
    IF i > Len(rules) THEN <<>>
    ELSE IF MediaBound(rules[i]) THEN RegularParts(rules, i + 1)
    ELSE <<RuleToCssString(rules[i], "        ")>> \o RegularParts(rules, i + 1)

RECURSIVE MediaRules(_, _, _)
\* the first loop of _combine_rules_to_css: media_rules, from rule i on
MediaRules(rules, i, media_rules) ==
    IF i > Len(rules) THEN media_rules
    ELSE IF MediaBound(rules[i])
         THEN MediaRules(rules, i + 1, GroupAppend(media_rules, rules[i].media_query[1], rules[i]))
    ELSE MediaRules(rules, i + 1, media_rules)

RECURSIVE MediaRuleParts(_, _)
MediaRuleParts(media_rule_list, k) ==
    IF k > Len(media_rule_list) THEN <<>>
    ELSE <<RuleToCssString(media_rule_list[k], "            ")>>
         \o MediaRuleParts(media_rule_list, k + 1)

RECURSIVE MediaParts(_, _)
\* the css_parts of the media queries, from media query g on
MediaParts(media_rules, g) ==
    IF g > Len(media_rules) THEN <<>>
    ELSE <<"\n        @media " \o media_rules[g][1] \o " {">>
         \o MediaRuleParts(media_rules[g][2], 1) \o <<"        }">>
         \o MediaParts(media_rules, g + 1)

\* _combine_rules_to_css(rules)
CombineRulesToCss(rules) ==
    Join(RegularParts(rules, 1) \o MediaParts(MediaRules(rules, 1, <<>>), 1), "\n", 1)

RECURSIVE RStripSemicolons(_)
\* s.rstrip(';')
RStripSemicolons(s) ==
    IF EndsWithSemicolon(s) THEN RStripSemicolons(Sub(s, 1, Len(s) - 1)) ELSE s

\* the text after the last whitespace of a stripped text
LastWord(t, i) == Sub(t, i + 1, Len(t))

\* prop_part.split()[-1] if prop_part.split() else ""
LastToken(s) ==
    LastWord(Strip(s),
             CHOOSE i \in 0..Len(Strip(s)) :
                 /\ i = 0 \/ IsSpace(Ch(Strip(s), i))
                 /\ \A k \in (i + 1)..Len(Strip(s)) : ~IsSpace(Ch(Strip(s), k)))

\* the reconstructed line of _apply_mappings, for the two parts of line.split(':', 1)
MappedLine(mappings, parts) ==
    parts[1] \o ": "
    \o MapValueOf(mappings, LastToken(parts[1]), RStripSemicolons(Strip(parts[2]))) \o ";"

\* one turn of the loop of _apply_mappings
ApplyToLine(mappings, line) ==
    IF ~Contains(line, ":") \/ StartsWith(Strip(line), "@") THEN line
    ELSE MappedLine(mappings, Split1(line, ":"))

RECURSIVE ApplyToLines(_, _, _)
ApplyToLines(mappings, lines, i) ==
    IF i > Len(lines) THEN <<>>
    ELSE <<ApplyToLine(mappings, lines[i])>> \o ApplyToLines(mappings, lines, i + 1)

\* _apply_mappings(css_content)
ApplyMappings(mappings, css) == Join(ApplyToLines(mappings, Split(css, "\n"), 1), "\n", 1)

UpperCh(c) ==
    CASE c = "a" -> "A" [] c = "b" -> "B" [] c = "c" -> "C" [] c = "d" -> "D"
      [] c = "e" -> "E" [] c = "f" -> "F" [] c = "g" -> "G" [] c = "h" -> "H"
      [] c = "i" -> "I" [] c = "j" -> "J" [] c = "k" -> "K" [] c = "l" -> "L"
      [] c = "m" -> "M" [] c = "n" -> "N" [] c = "o" -> "O" [] c = "p" -> "P"
      [] c = "q" -> "Q" [] c = "r" -> "R" [] c = "s" -> "S" [] c = "t" -> "T"
      [] c = "u" -> "U" [] c = "v" -> "V" [] c = "w" -> "W" [] c = "x" -> "X"
      [] c = "y" -> "Y" [] c = "z" -> "Z" [] OTHER -> c

RECURSIVE Title(_, _)
\* function_name.replace('_', ' ').title(), from character i on: a letter is
\* upper-cased after a character that is not a letter, lower-cased after a letter
Title(s, i) ==
    IF i > Len(s) THEN ""
    ELSE (IF Ch(s, i) = "_" THEN " "
          ELSE IF i > 1 /\ IsLetter(Ch(s, i - 1)) THEN LowerCh(Ch(s, i))
          ELSE UpperCh(Ch(s, i)))
         \o Title(s, i + 1)

\* _generate_inline_function(function_name, css_content)
GenerateInlineFunction(function_name, css) ==
    "//! " \o Title(function_name, 1) \o " styles\n\nuse stylist::Style;\n\npub fn "
    \o function_name \o "() -> Style {\n    Style::new(\n        r#\"" \o Strip(css)
    \o "\n    \"#,\n    )\n    .expect(\"Failed to create " \o function_name
    \o " styles\")\n}"

\* what generate_style_function and generate_keyframe_functions make of a css_content:
\* the rules it was combined from, the text before and after the mappings, and
\* the function returned (no template directory exists: the inline one)
Generated(function_name, rules, css, mapped_css) ==
    [rules |-> rules, css_content |-> css, mapped_css |-> mapped_css,
     text |-> GenerateInlineFunction(function_name, mapped_css)]

GenerateFrom(mappings, function_name, rules, css) ==
    Generated(function_name, rules, css, ApplyMappings(mappings, css))

\* generate_style_function(function_name, rules)
GenerateStyleFunction(mappings, function_name, rules) ==
    GenerateFrom(mappings, function_name, rules, CombineRulesToCss(rules))

RECURSIVE StageLines(_, _)
StageLines(properties, i) ==
    IF i > Len(properties) THEN <<>>
    ELSE <<"                " \o properties[i][1] \o ": " \o properties[i][2] \o ";">>
         \o StageLines(properties, i + 1)

RECURSIVE StageParts(_, _)
\* the loop of _keyframe_to_css_string over the stages from index i on
StageParts(stages, i) ==
    IF i > Len(stages) THEN <<>>
    ELSE <<"            " \o stages[i][1] \o " {">> \o StageLines(stages[i][2], 1)
         \o <<"            }">> \o StageParts(stages, i + 1)

\* _keyframe_to_css_string(keyframe)
KeyframeToCssString(keyframe) ==
    Join(<<"        @keyframes " \o keyframe.name \o " {">> \o StageParts(keyframe.keyframes, 1)
         \o <<"        }">>, "\n", 1)

RECURSIVE GenerateKeyframeFunctions(_, _, _, _)
\* generate_keyframe_functions(keyframes), from keyframe i on
GenerateKeyframeFunctions(mappings, kfs, i, functions) ==
    IF i > Len(kfs) THEN functions
    ELSE GenerateKeyframeFunctions(mappings, kfs, i + 1,
             DictSet(functions, "animation_" \o Lower(kfs[i].name),
                     GenerateFrom(mappings, "animation_" \o Lower(kfs[i].name), <<>>,
                                  KeyframeToCssString(kfs[i]))))

----------------------------------------------------------------------------
(* utils.validate_css_syntax                                               *)

\* s.endswith(p)
EndsWith(s, p) == Len(s) >= Len(p) /\ Sub(s, Len(s) - Len(p) + 1, Len(s)) = p

\* s.count(c) for a single character c
Count(s, c) == Cardinality({i \in 1..Len(s) : Ch(s, i) = c})

RECURSIVE Str(_)
\* the decimal text an f-string gives a natural number
Str(n) ==
    IF n < 10 THEN Ch("0123456789", n + 1)
    ELSE Str(n \div 10) \o Ch("0123456789", (n % 10) + 1)

\* if open_braces != close_braces: errors.append(...)
BraceError(errs, open_braces, close_braces) ==
    IF open_braces # close_braces
    THEN Append(errs, "Unbalanced braces: " \o Str(open_braces) \o " opening, "
                      \o Str(close_braces) \o " closing")
    ELSE errs

\* the check for balanced braces
BraceCheck(css, errs) == BraceError(errs, Count(css, "{"), Count(css, "}"))

\* the '{' at index i is followed by nothing but whitespace up to a '}'
ClosesEmpty(s, i) == Ch(s, FirstSolid(s, i + 1)) = "}"

\* len(re.findall(r'\s*\{\s*\}', css_content)): every match holds one '{', so the
\* matches are the '{' that an empty body follows
EmptySelectors(s) == Cardinality({i \in 1..Len(s) : Ch(s, i) = "{" /\ ClosesEmpty(s, i)})

\* if empty_selectors: errors.append(...)
EmptyError(errs, n) ==
    IF n > 0 THEN Append(errs, "Found " \o Str(n) \o " empty rule(s)") ELSE errs

\* the check for empty rules
EmptyCheck(css, errs) == EmptyError(errs, EmptySelectors(css))

\* the outer test on a stripped line: it is taken for a declaration
TakenForDeclaration(line) ==
    /\ line # ""
    /\ Contains(line, ":")
    /\ ~StartsWith(line, "@")
    /\ ~EndsWith(line, "{")
    /\ ~EndsWith(line, "}")

\* the body of the loop for line number i, on the stripped line
CheckLine(line, i, errs) ==
    IF TakenForDeclaration(line) /\ ~EndsWith(line, ";")
    THEN Append(errs, "Line " \o Str(i) \o ": Missing semicolon - '" \o line \o "'")
    ELSE errs

RECURSIVE LinesLoop(_, _, _)
\* for i, line in enumerate(lines, 1), from line i on
LinesLoop(lines, i, errs) ==
    IF i > Len(lines) THEN errs
    ELSE LinesLoop(lines, i + 1, CheckLine(Strip(lines[i]), i, errs))

\* validate_css_syntax with the check for balanced braces made last
BracesCheckedLast(css) ==
    BraceCheck(css, LinesLoop(Split(css, "\n"), 1, EmptyCheck(css, <<>>)))

\* validate_css_syntax(css_content)
ValidateCssSyntax(css) ==
    LinesLoop(Split(css, "\n"), 1, EmptyCheck(css, BraceCheck(css, <<>>)))

----------------------------------------------------------------------------
(* The converter: convert_string and analyze_css after their parse call    *)

RECURSIVE VariantFunctions(_, _, _, _)
\* the loop of convert_string over variants.items(), from item g on
VariantFunctions(mappings, variants, g, functions) ==
    IF g > Len(variants) THEN functions
    ELSE VariantFunctions(mappings, variants, g + 1,
             DictSet(functions, GetFunctionNameFromSelector(variants[g][1], None),
                     GenerateStyleFunction(mappings,
                                           GetFunctionNameFromSelector(variants[g][1], None),
                                           variants[g][2])))

RECURSIVE GroupedRules(_, _, _)
\* the loop of convert_string that groups the rules by function name, from rule i on
GroupedRules(rules, i, grouped_rules) ==
    IF i > Len(rules) THEN grouped_rules
    ELSE GroupedRules(rules, i + 1,
             GroupAppend(grouped_rules,
                         GetFunctionNameFromSelector(rules[i].selector, rules[i].pseudo_selector),
                         rules[i]))

RECURSIVE GroupedFunctions(_, _, _, _)
\* the loop of convert_string over grouped_rules.items(), from item g on
GroupedFunctions(mappings, grouped_rules, g, functions) ==
    IF g > Len(grouped_rules) THEN functions
    ELSE GroupedFunctions(mappings, grouped_rules, g + 1,
             DictSet(functions, grouped_rules[g][1],
                     GenerateStyleFunction(mappings, grouped_rules[g][1], grouped_rules[g][2])))

\* the functions generated from the rules, with options.get('extract_variants', True)
StyleFunctions(mappings, rules, extract_variants) ==
    IF extract_variants THEN VariantFunctions(mappings, ExtractVariants(rules), 1, <<>>)
    ELSE GroupedFunctions(mappings, GroupedRules(rules, 1, <<>>), 1, <<>>)

RECURSIVE Update(_, _, _)
\* d.update(other), from item i of other on
Update(d, other, i) ==
    IF i > Len(other) THEN d ELSE Update(DictSet(d, other[i][1], other[i][2]), other, i + 1)

\* convert_string after its parse call: the functions returned
ConvertStringOf(mappings, rules, kfs, extract_variants) ==
    Update(StyleFunctions(mappings, rules, extract_variants),
           GenerateKeyframeFunctions(mappings, kfs, 1, <<>>), 1)

RECURSIVE AllNames(_, _)
\* all_properties: the property names of the rules from rule i on
AllNames(rules, i) ==
    IF i > Len(rules) THEN <<>>
    ELSE [k \in 1..Len(rules[i].properties) |-> rules[i].properties[k][1]]
         \o AllNames(rules, i + 1)

RECURSIVE AllValues(_, _)
\* all_values: the property values of the rules from rule i on
AllValues(rules, i) ==
    IF i > Len(rules) THEN <<>>
    ELSE [k \in 1..Len(rules[i].properties) |-> rules[i].properties[k][2]]
         \o AllValues(rules, i + 1)

\* the inner loop of the value analysis: `rule` is the variable the loops before
\* it left bound, the last of the rules
MapsUnder(mappings, rule, value) ==
    \E k \in 1..Len(rule.properties) :
        MapValueOf(mappings, rule.properties[k][1], value) # value

\* mappable_values
MappableValues(mappings, rules, all_values) ==
    Cardinality({k \in 1..Len(all_values) : MapsUnder(mappings, rules[Len(rules)], all_values[k])})

\* round(x, 1) of x = thousandths / n * 100, in tenths (ties to even)
Tenths(q, r, n) == IF 2 * r > n \/ (2 * r = n /\ q % 2 = 1) THEN q + 1 ELSE q

\* f"{(mappable_values / len(all_values) * 100):.1f}%" if all_values else "0%"
MappingCoverage(m, n) ==
    IF n = 0 THEN "0%"
    ELSE Str(Tenths((1000 * m) \div n, (1000 * m) % n, n) \div 10) \o "."
         \o Str(Tenths((1000 * m) \div n, (1000 * m) % n, n) % 10) \o "%"

\* stats["components"]: the size of each component
ComponentSizes(components) == [g \in 1..Len(components) |-> <<components[g][1], Len(components[g][2])>>]

\* analyze_css after its parse call: the stats returned
AnalyzeCssOf(mappings, rules, kfs) ==
    [total_rules |-> Len(rules),
     total_keyframes |-> Len(kfs),
     media_queries |-> Cardinality({k \in 1..Len(rules) : MediaBound(rules[k])}),
     pseudo_selectors |->
         Cardinality({k \in 1..Len(rules) : rules[k].pseudo_selector \notin {None, Some("")}}),
     unique_selectors |-> Cardinality({rules[k].selector : k \in 1..Len(rules)}),
     total_properties |-> Len(AllNames(rules, 1)),
     unique_properties |-> Cardinality({AllNames(rules, 1)[k] : k \in 1..Len(AllNames(rules, 1))}),
     components |-> ComponentSizes(GroupRulesByComponent(rules)),
     mappable_values |-> MappableValues(mappings, rules, AllValues(rules, 1)),
     mapping_coverage |->
         MappingCoverage(MappableValues(mappings, rules, AllValues(rules, 1)),
                         Len(AllValues(rules, 1)))]

----------------------------------------------------------------------------
(* The stylesheets the calls are made with                                 *)

MaxRules == 2

Plain == StyleRule(".a", <<<<"c", "R">>>>)

Hover == StyleRule(".b:h", <<<<"c", "r">>, <<"d", "u(e;f)">>, <<"c", "b">>>>)

TopRules ==
    { Plain,
      Hover,
      StyleRule(".e", <<>>),
      MediaRule("(w:1)", <<Hover, Plain>>),
      KeyframesRule("k", <<KeyframeStage("0%", <<<<"t", "a">>>>)>>),
      ImportRule("u") }

Sheets == UNION {[1..n -> TopRules] : n \in 0..MaxRules}

\* the selectors of the rules the classifier is given
Selectors ==
    { ".btn-primary", ".btn-secondary", ".btn-large", ".card-header", ".btn", ".btn:hover",
      ".input:focus", "123-class", ".parent > .child", "div.card[data-active]", "#my-id",
      ".my-class", "div", ":hover", ":root", ":root:hover", "a::before", ".btn-smooth",
      ".Nav_Item", ".sm\\:flex", "li:nth-child(2)" }

Declared(selector) == StyleRule(selector, <<<<"c", "r">>>>)

\* stylesheets with rules that declare nothing, or only declarations without a
\* name or without a value, next to rules that declare something
DegenerateSheets ==
    { <<StyleRule(".e", <<>>), Declared(".btn")>>,
      <<StyleRule(".btn-large", <<<<"c", "">>, <<"", "v">>>>), Declared(".btn-primary")>>,
      <<StyleRule(".btn-large", <<<<"c", "">>, <<"d", "v">>>>)>>,
      <<MediaRule("(w:1)", <<StyleRule(".card", <<<<"c", "">>>>), Declared(".card-header")>>)>> }

\* stylesheets in which the rules of one component, and of one variant key, are
\* apart from one another
InterleavedSheets ==
    { <<Declared(".btn-primary"), Declared(".card-header"), Declared(".btn-secondary"),
        Declared(".card-body")>>,
      <<Declared(".btn"), Declared(".card"), Declared(".btn:hover"), Declared(".btn:focus")>> }

\* stylesheets of one rule per selector, and the two of the parser's tests
SelectorSheets ==
    {<<Declared(s)>> : s \in Selectors}
    \cup {<<Declared(".btn-primary"), Declared(".btn-secondary"), Declared(".card-header")>>,
          <<Declared(".btn-primary"), Declared(".btn-secondary"), Declared(".btn-large")>>}
    \cup DegenerateSheets
    \cup InterleavedSheets

----------------------------------------------------------------------------
(* The configurations a session is built with and the values it maps       *)

CustomMappings ==
    { None,
      Some(<< <<"colors", JDict(<< <<"#007bff", "var(--brand)">>,
                                   <<"#123456", "var(--accent)">> >>)>> >>),
      Some(<< <<"extra", JDict(<< <<"16px", "var(--extra-md)">>, <<"xx", "var(--xx)">> >>)>>,
              <<"spacing", JDict(<< <<"16px", "var(--space-4)">> >>)>> >>),
      Some(<< <<"note", JStr("text")>>,
              <<"layers", JDict(<< <<"xx", "var(--layer)">> >>)>> >>) }

PropertyNames ==
    { "background-color", "padding", "border-radius", "color", "border-color",
      "margin-top", "unknown-property", "font-size", "font-weight", "box-shadow",
      "transition", "max-width", "Background-COLOR", "--shadow-color", "--gap-width",
      "display" }

Values ==
    { "#007bff", "16px", "  16px ", "50%", "#123456", "#ffffff", "#6c757d", "#adb5bd",
      "#007BFF", "xx", "bold", "none" }

\* the files a session is constructed from
ConfigFiles ==
    {ConfigFile(k) : k \in {"none", "missing", "vanished", "unreadable", "undecodable",
                            "invalid"}}
    \cup {FileOf(custom) : custom \in CustomMappings}
    \cup {JsonFile(j) : j \in {JList, JNull, JNum, JStr("x"),
                               JDict(<< <<"colors", JStr("red")>> >>),
                               JDict(<< <<"extra", JDict(<< <<"zz", "var(--zz)">> >>)>>,
                                        <<"spacing", JNull>> >>)}}

\* what a caller writes into the dict get_mappings returned
CallerCategories == {"colors", "mine"}

CallerKeys == {"#007bff", "zz"}

CallerTokens == {"red"}

\* the map_value calls made around those writes
ProbeNames == {"color", "display"}

ProbeValues == {"#007bff", " zz"}

MaxOrdered == 3

\* rules with selectors and conditions of their own, by which an order shows
OrderRules ==
    { Plain, Hover, Declared(".btn"),
      MediaRule("(w:1)", <<Hover, Plain>>),
      MediaRule("(h:2)", <<Declared(".m"), Declared(".n")>>) }

\* the stylesheets of one to MaxOrdered of those rules, each at most once, in every order
OrderSheets ==
    UNION {{sh \in [1..n -> OrderRules] : \A i, j \in 1..n : sh[i] = sh[j] => i = j} :
           n \in 1..MaxOrdered}

\* the stylesheets convert_string and analyze_css are given
ConvertSheets ==
    { <<StyleRule(".btn", <<<<"color", "#007bff">>>>)>>,
      <<StyleRule(".card", <<<<"padding", "16px">>, <<"color", "red">>>>)>>,
      <<StyleRule(".btn", <<<<"color", "#007bff">>>>),
        StyleRule(".btn:hover", <<<<"color", "red">>>>)>>,
      <<StyleRule("#my-id", <<<<"color", "red">>>>),
        StyleRule(".my-id", <<<<"padding", "16px">>>>)>>,
      <<StyleRule(".animation-fade", <<<<"color", "red">>>>),
        KeyframesRule("fade", <<KeyframeStage("from", <<<<"opacity", "0">>>>)>>)>>,
      <<StyleRule(".a", <<<<"padding", "16px">>>>),
        StyleRule(".b", <<<<"color", "red">>>>)>>,
      <<StyleRule(".b", <<<<"color", "red">>>>),
        StyleRule(".a", <<<<"padding", "16px">>>>)>>,
      <<StyleRule(".card", <<<<"margin", "8px">>>>),
        MediaRule("(w:1)", <<StyleRule(".card", <<<<"margin", "16px">>>>)>>)>>,
      <<StyleRule(".btn-primary", <<<<"color", "#007bff">>>>),
        StyleRule(".btn-large", <<<<"padding", "16px">>>>)>> }

\* the conversions that run through one session at the same time
Tasks == {"A", "B"}

\* the stylesheets those conversions read
TaskSheets ==
    { <<Plain>>,
      <<KeyframesRule("k", <<KeyframeStage("0%", <<<<"t", "a">>>>)>>)>>,
      <<Plain, KeyframesRule("m", <<KeyframeStage("to", <<<<"t", "b">>>>)>>)>> }

\* a conversion's locals before it has read its input
NewTask ==
    [pc |-> "start", sheet |-> <<>>, css_content |-> "", fault |-> NoFault,
     rules |-> <<>>, keyframes |-> <<>>]

MaxLines == 3

\* the lines the texts handed to validate_css_syntax are made of
LineTexts ==
    { ".class { color: red; }", ".class { color: red; } }", ".class { color: red }",
      ".a:hover,", ".b {", "  color: red;", "  color: red", "}", ".e { }" }

RECURSIVE JoinLines(_, _)
\* the text whose lines from i on are those of lines
JoinLines(lines, i) ==
    IF i = Len(lines) THEN lines[i] ELSE lines[i] \o "\n" \o JoinLines(lines, i + 1)

\* the texts of one to MaxLines lines
Contents == {JoinLines(ls, 1) : ls \in UNION {[1..n -> LineTexts] : n \in 1..MaxLines}}

----------------------------------------------------------------------------
(* A converter session as a state machine: its parser and its mappings     *)

VARIABLES
    rules,          \* parser.rules
    keyframes,      \* parser.keyframes
    imports,        \* parser.imports
    pc,             \* "idle", "read" (css_content is in hand) or "parsed" (parse returned)
    css_content,    \* the text the caller read and hands to parse
    sheet,          \* the object model of css_content
    fault,          \* where the library raised in the call
    returned,       \* the list the call returned
    raised,         \* whether the primary strategy raised in the call
    escaped,        \* whether an exception left the call
    prior,          \* the parser's fields when the call was made
    mappings,       \* mappings.mappings
    custom_mappings,\* the configuration the mappings were built with, if any
    mpc,            \* "built", or "mapped" once map_value has been called
    property_name,  \* the arguments of the last map_value call
    value,
    category,       \* the category that call determined
    mapped,         \* what that call returned
    config_file,    \* the file behind the session's config_path
    handle,         \* the dict get_mappings returned to the caller, if it was called
    components,     \* what group_rules_by_component returned, if it was called
    variants,       \* what extract_variants returned, if it was called
    named,          \* the arguments of the last get_function_name_from_selector call
    function_name,  \* what that call returned
    tasks,          \* the conversions running through the session, each with its locals
    content,        \* the text handed to validate_css_syntax
    errors,         \* what validate_css_syntax returned, if it was called
    options,        \* the extract_variants option of the last convert_string call
    functions,      \* what convert_string returned, if it was called and returned
    stats           \* what analyze_css returned, if it was called and returned

parserVars ==
    <<rules, keyframes, imports, pc, css_content, sheet, fault, returned, raised, escaped,
      prior>>

mapperVars ==
    <<mappings, custom_mappings, mpc, property_name, value, category, mapped, config_file,
      handle>>

classifierVars == <<components, variants, named, function_name>>

callerVars == <<tasks, content, errors>>

converterVars == <<options, functions, stats>>

vars == <<parserVars, mapperVars, classifierVars, callerVars, converterVars>>

Self == [rules |-> rules, keyframes |-> keyframes, imports |-> imports]

\* CssParser.__init__, before any call
InitParser ==
    /\ rules = <<>>
    /\ keyframes = <<>>
    /\ imports = <<>>
    /\ pc = "idle"
    /\ css_content = ""
    /\ sheet = <<>>
    /\ fault = NoFault
    /\ returned = <<>>
    /\ raised = FALSE
    /\ escaped = FALSE
    /\ prior = [rules |-> <<>>, keyframes |-> <<>>, imports |-> <<>>]

\* no classifier method has been called
InitClassifier ==
    /\ components = None
    /\ variants = None
    /\ named = None
    /\ function_name = ""

\* no conversion has started and validate_css_syntax has not been called
InitCallers ==
    /\ tasks = [t \in Tasks |-> NewTask]
    /\ content = ""
    /\ errors = None

\* neither convert_string nor analyze_css has been called
InitConverter ==
    /\ options = TRUE
    /\ functions = None
    /\ stats = None

\* ValueMappings.__init__ with the configuration custom, before any call
InitMappings(custom) ==
    /\ config_file = FileOf(custom)
    /\ handle = None
    /\ custom_mappings = custom
    /\ mappings = NewValueMappings(custom)
    /\ mpc = "built"
    /\ property_name = ""
    /\ value = ""
    /\ category = None
    /\ mapped = ""

\* CssToRustConverter.__init__ without a configuration file
Init == InitParser /\ InitMappings(None) /\ InitClassifier /\ InitCallers /\ InitConverter

\* CssToRustConverter.__init__ with or without a configuration file
InitConfigured ==
    InitParser /\ InitClassifier /\ InitCallers /\ InitConverter
    /\ \E custom \in CustomMappings : InitMappings(custom)

\* the caller gets the text of a stylesheet: convert_file reads it, convert_string
\* and analyze_css are given it
ReadCssIn(sheets) ==
    /\ pc = "idle"
    /\ \E sh \in sheets :
          /\ sheet' = sh
          /\ css_content' = SheetText(sh, Len(sh))
    /\ pc' = "read"
    /\ UNCHANGED <<rules, keyframes, imports, fault, returned, raised, escaped, prior,
                   mapperVars, classifierVars, callerVars, converterVars>>

ReadCss == ReadCssIn(Sheets)

\* parser.parse(css_content)
Parse ==
    /\ pc = "read"
    /\ \E f \in FaultsOf(sheet) :
       \E out \in {ParseCall(Self, css_content, sheet, f)} :
          /\ rules' = <<>>
          /\ keyframes' = out.keyframes
          /\ imports' = out.imports
          /\ returned' = out.rules
          /\ fault' = f
          /\ raised' = (f.kind \in {"parseString", "walk"})
          /\ escaped' = out.raised
    /\ prior' = Self
    /\ pc' = "parsed"
    /\ UNCHANGED <<css_content, sheet, mapperVars, classifierVars, callerVars, converterVars>>

ReadOrdered == ReadCssIn(OrderSheets)

\* the caller is done with what the call returned and with the text
Finish ==
    /\ pc = "parsed"
    /\ pc' = "idle"
    /\ css_content' = ""
    /\ sheet' = <<>>
    /\ fault' = NoFault
    /\ returned' = <<>>
    /\ raised' = FALSE
    /\ escaped' = FALSE
    /\ prior' = [rules |-> <<>>, keyframes |-> <<>>, imports |-> <<>>]
    /\ UNCHANGED <<rules, keyframes, imports, mapperVars, classifierVars, callerVars, converterVars>>

ReadConverted == ReadCssIn(ConvertSheets)

\* converter.convert_string(css_content, extract_variants=...): the parse call
\* and the functions generated from what it returned
ConvertString ==
    /\ pc = "read"
    /\ \E f \in FaultsOf(sheet), extract_variants \in BOOLEAN :
       \E out \in {ParseCall(Self, css_content, sheet, f)} :
          /\ rules' = <<>>
          /\ keyframes' = out.keyframes
          /\ imports' = out.imports
          /\ returned' = out.rules
          /\ fault' = f
          /\ raised' = (f.kind \in {"parseString", "walk"})
          /\ escaped' = out.raised
          /\ options' = extract_variants
          /\ functions' = IF out.raised THEN None
                          ELSE Some(ConvertStringOf(mappings, out.rules, out.keyframes,
                                                    extract_variants))
    /\ prior' = Self
    /\ pc' = "parsed"
    /\ UNCHANGED <<css_content, sheet, mapperVars, classifierVars, callerVars, stats>>

\* converter.analyze_css(css_content): the parse call and the statistics of
\* what it returned
AnalyzeCss ==
    /\ pc = "read"
    /\ \E f \in FaultsOf(sheet) :
       \E out \in {ParseCall(Self, css_content, sheet, f)} :
          /\ rules' = <<>>
          /\ keyframes' = out.keyframes
          /\ imports' = out.imports
          /\ returned' = out.rules
          /\ fault' = f
          /\ raised' = (f.kind \in {"parseString", "walk"})
          /\ escaped' = out.raised
          /\ stats' = IF out.raised THEN None
                      ELSE Some(AnalyzeCssOf(mappings, out.rules, out.keyframes))
    /\ prior' = Self
    /\ pc' = "parsed"
    /\ UNCHANGED <<css_content, sheet, mapperVars, classifierVars, callerVars,
                   options, functions>>

\* mappings.map_value(property_name, value): the category is determined once,
\* as in the source, and the stripped value looked up
MapValueIn(names, values) ==
    /\ mpc \in {"built", "mapped"}
    /\ \E p \in names, v \in values :
          /\ property_name' = p
          /\ value' = v
          /\ \E c \in {GetCategoryForProperty(p)} :
                /\ category' = c
                /\ mapped' = Lookup(mappings, c, Strip(v))
    /\ mpc' = "mapped"
    /\ UNCHANGED <<mappings, custom_mappings, config_file, handle, parserVars, classifierVars, callerVars, converterVars>>

MapValue == MapValueIn(PropertyNames, Values)

\* ValueMappings(config_path) on a session that has not been constructed yet
NewSession ==
    /\ mpc = "new"
    /\ \E vm \in {Construct(config_file)} :
          /\ mappings' = vm.mappings
          /\ custom_mappings' = vm.custom
          /\ mpc' = IF vm.raised THEN "raised" ELSE "built"
    /\ UNCHANGED <<property_name, value, category, mapped, config_file, handle, parserVars, classifierVars, callerVars, converterVars>>

\* m = mappings.get_mappings()
GetMappings ==
    /\ mpc \in {"built", "mapped"}
    /\ handle = None
    /\ handle' = Some(GetMappingsOf(mappings))
    /\ UNCHANGED <<mappings, custom_mappings, mpc, property_name, value, category, mapped,
                   config_file, parserVars, classifierVars, callerVars, converterVars>>

\* m[cat][key] = token, by the caller, on a category whose value is a table
CallerSetEntry ==
    /\ handle # None
    /\ \E cat \in CallerCategories, key \in CallerKeys, token \in CallerTokens :
          /\ HasKey(handle[1], cat)
          /\ IF Get(handle[1], cat).shared
             THEN /\ Get(mappings, cat).kind = "dict"
                  /\ mappings' = DictSet(mappings, cat, TableSet(Get(mappings, cat), key, token))
                  /\ handle' = handle
             ELSE /\ mappings' = mappings
                  /\ handle' = Some(DictSet(handle[1], cat,
                                            Own(TableSet(Get(handle[1], cat).value, key, token))))
    /\ UNCHANGED <<custom_mappings, mpc, property_name, value, category, mapped, config_file,
                   parserVars, classifierVars, callerVars, converterVars>>

\* m[cat] = {}, by the caller
CallerSetCategory ==
    /\ handle # None
    /\ \E cat \in CallerCategories :
          handle' = Some(DictSet(handle[1], cat, Own(JDict(<<>>))))
    /\ UNCHANGED <<mappings, custom_mappings, mpc, property_name, value, category, mapped,
                   config_file, parserVars, classifierVars, callerVars, converterVars>>

\* a map_value call before or after the caller's writes
MapValueProbe == MapValueIn(ProbeNames, ProbeValues)

\* the caller gets a stylesheet for the classifier
ReadSelectors == ReadCssIn(SelectorSheets)

\* components = parser.group_rules_by_component(rules), on the rules parse returned
GroupRules ==
    /\ pc = "parsed"
    /\ components' = Some(GroupRulesByComponent(returned))
    /\ UNCHANGED <<variants, named, function_name, parserVars, mapperVars, callerVars, converterVars>>

\* variants = parser.extract_variants(rules), on the rules parse returned
ExtractRuleVariants ==
    /\ pc = "parsed"
    /\ variants' = Some(ExtractVariants(returned))
    /\ UNCHANGED <<components, named, function_name, parserVars, mapperVars, callerVars, converterVars>>

\* parser.get_function_name_from_selector(rule.selector, rule.pseudo_selector)
\* for a rule parse returned
NameRule ==
    /\ pc = "parsed"
    /\ \E k \in 1..Len(returned) :
          /\ named' = Some(<<returned[k].selector, returned[k].pseudo_selector>>)
          /\ function_name' =
                 GetFunctionNameFromSelector(returned[k].selector, returned[k].pseudo_selector)
    /\ UNCHANGED <<components, variants, parserVars, mapperVars, callerVars, converterVars>>

\* parser.get_function_name_from_selector(variant_name) for a key of variants
NameVariant ==
    /\ variants # None
    /\ \E k \in 1..Len(variants[1]) :
          /\ named' = Some(<<variants[1][k][1], None>>)
          /\ function_name' = GetFunctionNameFromSelector(variants[1][k][1], None)
    /\ UNCHANGED <<components, variants, parserVars, mapperVars, callerVars, converterVars>>

\* convert_file / convert_string of conversion t up to its parse call: the text is
\* read into the conversion's local css_content
TaskRead(t) ==
    /\ tasks[t].pc = "start"
    /\ \E sh \in TaskSheets :
          tasks' = [tasks EXCEPT ![t].sheet = sh,
                                 ![t].css_content = SheetText(sh, Len(sh)),
                                 ![t].pc = "read"]
    /\ UNCHANGED <<parserVars, mapperVars, classifierVars, content, errors, converterVars>>

\* the three assignments that open parse, made by conversion t on the session's parser
TaskReset(t) ==
    /\ tasks[t].pc = "read"
    /\ rules' = ResetParser(Self).rules
    /\ keyframes' = ResetParser(Self).keyframes
    /\ imports' = ResetParser(Self).imports
    /\ tasks' = [tasks EXCEPT ![t].pc = "reset"]
    /\ UNCHANGED <<pc, css_content, sheet, fault, returned, raised, escaped, prior,
                   mapperVars, classifierVars, content, errors, converterVars>>

\* the try / except of parse for conversion t, on the parser's fields as they are
\* now; rules = self.parser.parse(css_content) binds what it returned
TaskParse(t) ==
    /\ tasks[t].pc = "reset"
    /\ \E f \in FaultsOf(tasks[t].sheet) :
       \E out \in {TryParse(Self, tasks[t].css_content, tasks[t].sheet, f)} :
          /\ keyframes' = out.keyframes
          /\ imports' = out.imports
          /\ tasks' = [tasks EXCEPT ![t].fault = f,
                                    ![t].rules = out.rules,
                                    ![t].pc = IF out.raised THEN "raised" ELSE "parsed"]
    /\ UNCHANGED <<rules, pc, css_content, sheet, fault, returned, raised, escaped, prior,
                   mapperVars, classifierVars, content, errors, converterVars>>

\* keyframes = self.parser.keyframes, by conversion t after its parse call returned
TaskKeyframes(t) ==
    /\ tasks[t].pc = "parsed"
    /\ tasks' = [tasks EXCEPT ![t].keyframes = keyframes, ![t].pc = "done"]
    /\ UNCHANGED <<parserVars, mapperVars, classifierVars, content, errors, converterVars>>

\* errors = validate_css_syntax(content)
Validate ==
    /\ errors = None
    /\ errors' = Some(ValidateCssSyntax(content))
    /\ UNCHANGED <<parserVars, mapperVars, classifierVars, tasks, content, converterVars>>

Next == ReadCss \/ Parse \/ Finish

Spec == Init /\ [][Next]_vars

NextMap == MapValue

SpecMap == InitConfigured /\ [][NextMap]_vars

NextPar ==
    \E t \in Tasks : TaskRead(t) \/ TaskReset(t) \/ TaskParse(t) \/ TaskKeyframes(t)

\* two conversions running through one session
SpecPar == Init /\ [][NextPar]_vars

\* a text in hand that validate_css_syntax has not been called on yet
InitSyntax ==
    /\ InitParser
    /\ InitMappings(None)
    /\ InitClassifier
    /\ tasks = [t \in Tasks |-> NewTask]
    /\ content \in Contents
    /\ errors = None
    /\ InitConverter

NextConvert == ReadConverted \/ ConvertString \/ AnalyzeCss

SpecConvert == Init /\ [][NextConvert]_vars

NextSyntax == Validate

SpecSyntax == InitSyntax /\ [][NextSyntax]_vars

NextOrder == ReadOrdered \/ Parse \/ Finish

\* parse calls on stylesheets whose rules differ from one another
SpecOrder == Init /\ [][NextOrder]_vars

NextNames ==
    ReadSelectors \/ Parse \/ GroupRules \/ ExtractRuleVariants \/ NameRule \/ NameVariant

SpecNames == Init /\ [][NextNames]_vars

\* a session from before its mappings are constructed
InitSession ==
    /\ InitParser
    /\ InitClassifier
    /\ InitCallers
    /\ InitConverter
    /\ config_file \in ConfigFiles
    /\ handle = None
    /\ custom_mappings = None
    /\ mappings = <<>>
    /\ mpc = "new"
    /\ property_name = ""
    /\ value = ""
    /\ category = None
    /\ mapped = ""

NextSession ==
    NewSession \/ GetMappings \/ CallerSetEntry \/ CallerSetCategory \/ MapValueProbe

SpecSession == InitSession /\ [][NextSession]_vars

----------------------------------------------------------------------------
(* Properties of a parse call that has returned                            *)

Fresh == [rules |-> <<>>, keyframes |-> <<>>, imports |-> <<>>]

\* the text occurs in the rule's selector, pseudo-selector or properties
Mentions(rule, text) ==
    \/ Contains(rule.selector, text)
    \/ \E i \in 1..Len(rule.pseudo_selector) : Contains(rule.pseudo_selector[i], text)
    \/ \E i \in 1..Len(rule.properties) :
           Contains(rule.properties[i][1], text) \/ Contains(rule.properties[i][2], text)

\* a style rule that declares something
Declares(rule) == rule.type = "STYLE_RULE" /\ rule.style # <<>>

\* the sheet is one style rule with at least one declaration, and the call met
\* no failure inside that rule
OneValidRule ==
    /\ pc = "parsed"
    /\ Len(sheet) = 1
    /\ Declares(sheet[1])
    /\ fault.kind # "rule"

\* the sheet without the rule a per-rule failure hit
SheetWithout(sh, f) ==
    IF f.nested = 0
    THEN [i \in 1..(Len(sh) - 1) |-> IF i < f.at THEN sh[i] ELSE sh[i + 1]]
    ELSE [sh EXCEPT ![f.at].cssRules =
             [j \in 1..(Len(@) - 1) |-> IF j < f.nested THEN @[j] ELSE @[j + 1]]]

----------------------------------------------------------------------------
(* C1 *)

\* C1 (as stated): when the stylesheet consists of style rules wrapped in @media
\* blocks, then under either strategy every returned Rule carries the condition
\* of one of the blocks as its media_query, and no returned Rule has a selector
\* or a property built from the "@media" text.
C1_MediaWrapperYieldsNoRule ==
    (/\ pc = "parsed"
     /\ sheet # <<>>
     /\ \A i \in 1..Len(sheet) : sheet[i].type = "MEDIA_RULE")
    => \A k \in 1..Len(returned) :
           /\ \E i \in 1..Len(sheet) : returned[k].media_query = Some(sheet[i].mediaText)
           /\ ~Mentions(returned[k], "@media")

----------------------------------------------------------------------------
(* C2 *)

\* C2 (as stated): for a stylesheet that is one valid style rule, parse returns
\* exactly one Rule under either strategy, and its properties hold the declared
\* names with their declared values, verbatim (case preserved); a name that is
\* declared more than once is read as the pair of its last declaration.
C2_DeclaredPairsKept ==
    OneValidRule =>
        /\ Len(returned) = 1
        /\ \A k \in 1..Len(returned[1].properties) :
               \E i \in 1..Len(sheet[1].style) :
                   returned[1].properties[k][1] = sheet[1].style[i][1]
        /\ \A i \in 1..Len(sheet[1].style) :
               (\A j \in (i + 1)..Len(sheet[1].style) :
                    sheet[1].style[j][1] # sheet[1].style[i][1])
               => /\ HasKey(returned[1].properties, sheet[1].style[i][1])
                  /\ Get(returned[1].properties, sheet[1].style[i][1]) = sheet[1].style[i][2]

----------------------------------------------------------------------------
(* C3 *)

\* C3: after every parse call, whatever calls came before it, parser.keyframes
\* and parser.imports are what the same call leaves on a parser that was never
\* used, and every keyframe and import URL they hold comes from the input of
\* this call: nothing an earlier call recorded is still there.
C3_NothingSurvivesACall ==
    pc = "parsed" =>
        /\ \E alone \in {ParseCall(Fresh, css_content, sheet, fault)} :
               keyframes = alone.keyframes /\ imports = alone.imports
        /\ \A k \in 1..Len(keyframes) :
               \E i \in 1..Len(sheet) :
                   sheet[i].type = "KEYFRAMES_RULE" /\ sheet[i].name = keyframes[k].name
        /\ \A k \in 1..Len(imports) :
               \E i \in 1..Len(sheet) :
                   sheet[i].type = "IMPORT_RULE" /\ sheet[i].href = imports[k]

\* a call on a parser that held a keyframe and an import left it holding neither
C3_Witness ==
    /\ pc = "parsed"
    /\ prior.keyframes # <<>>
    /\ prior.imports # <<>>
    /\ keyframes = <<>>
    /\ imports = <<>>

----------------------------------------------------------------------------
(* C4 *)

\* C4: parse returns a list and no exception leaves it; when the primary
\* strategy raised, the list is the fallback strategy's for the same text; a
\* text with no rule, media block or keyframes block that declares anything
\* yields the empty list.
C4_FallbackResultReturned ==
    pc = "parsed" =>
        /\ ~escaped
        /\ raised => returned = ParseWithRegex(<<>>, <<>>, css_content).rules
        /\ (\A i \in 1..Len(sheet) :
                sheet[i].type \in {"IMPORT_RULE", "COMMENT"}
                \/ (sheet[i].type = "STYLE_RULE" /\ sheet[i].style = <<>>))
           => returned = <<>>

\* the primary strategy raised and the caller still got rules
C4_Witness ==
    /\ pc = "parsed"
    /\ raised
    /\ fault.kind = "parseString"
    /\ Len(returned) = 2

----------------------------------------------------------------------------
(* C5 *)

\* C5: when one rule fails inside the primary strategy (a top-level style rule,
\* a style rule nested in a media rule, or a keyframes rule), the primary
\* strategy does not raise, so the fallback does not run, and the list returned
\* is the one the primary strategy returns for the document without that rule.
C5_FailedRuleSkippedAlone ==
    (pc = "parsed" /\ fault.kind = "rule") =>
        /\ ~raised
        /\ returned = ParseWithCssutils(<<>>, <<>>, SheetWithout(sheet, fault), NoFault).rules

\* a style rule nested in a media rule failed and its sibling was returned
C5_Witness ==
    /\ pc = "parsed"
    /\ fault.kind = "rule"
    /\ fault.nested = 1
    /\ Len(returned) = 1
    /\ returned[1].selector = ".a"

----------------------------------------------------------------------------
(* C6 *)

\* C6 (as stated): after a parse call, whichever strategy produced the result,
\* the URL of every @import of the text is in parser.imports, and no returned
\* Rule has the "@import" text in its selector or properties.
C6_ImportRecordedNotSurfaced ==
    pc = "parsed" =>
        /\ \A i \in 1..Len(sheet) :
               sheet[i].type = "IMPORT_RULE" =>
                   \E k \in 1..Len(imports) : imports[k] = sheet[i].href
        /\ \A k \in 1..Len(returned) : ~Mentions(returned[k], "@import")

----------------------------------------------------------------------------
(* Properties of a map_value call                                          *)

\* the table of a category of self.mappings
TableOf(cat) == Get(mappings, cat).items

\* the names of the default categories, in the order they are declared
DefaultOrder ==
    <<"colors", "spacing", "border_radius", "font_sizes", "font_weights", "shadows",
      "transitions", "breakpoints">>

\* the keywords that put a property name into each category, in precedence order
CategoryKeywords ==
    << <<"colors", {"color", "background"}>>,
       <<"spacing", {"padding", "margin", "gap", "spacing"}>>,
       <<"border_radius", {"border-radius"}>>,
       <<"font_sizes", {"font-size"}>>,
       <<"font_weights", {"font-weight"}>>,
       <<"shadows", {"shadow"}>>,
       <<"transitions", {"transition"}>>,
       <<"breakpoints", {"width"}>> >>

----------------------------------------------------------------------------
(* C7 *)

----------------------------------------------------------------------------
(* C8 *)

\* C8: the category map_value uses for a property name is that of the first
\* entry, in the order colors, spacing, border_radius, font_sizes, font_weights,
\* shadows, transitions, breakpoints, one of whose keywords is a substring of the
\* lower-cased name, and none when no entry has one; 'border-color' is in
\* colors, 'margin-top' in spacing, 'unknown-property' in none.
C8_FirstKeywordCategory ==
    mpc = "mapped" =>
        LET hits == {i \in 1..Len(CategoryKeywords) :
                        \E kw \in CategoryKeywords[i][2] : Contains(Lower(property_name), kw)}
        IN  /\ hits = {} => category = None
            /\ hits # {} =>
                   category = Some(CategoryKeywords[CHOOSE i \in hits : \A j \in hits : i <= j][1])
            /\ property_name = "border-color" => category = Some("colors")
            /\ property_name = "margin-top" => category = Some("spacing")
            /\ property_name = "unknown-property" => category = None

\* a name with the keywords of two categories went to the earlier one
C8_Witness ==
    /\ mpc = "mapped"
    /\ property_name = "--gap-width"
    /\ category = Some("spacing")

----------------------------------------------------------------------------
(* C9 *)

\* C9: for a property name that is in no category, map_value returns the token
\* found under the trimmed value in the first table that has it as a key, the
\* tables taken in the order the default categories are declared followed by
\* the categories the configuration added, in its order; when no table has the
\* key, the trimmed value is returned.
C9_FirstTableInOrderWins ==
    (mpc = "mapped" /\ category = None) =>
        LET has(i) == /\ mappings[i][2].kind = "dict"
                      /\ \E k \in 1..Len(mappings[i][2].items) :
                             mappings[i][2].items[k][1] = Strip(value)
            hits == {i \in 1..Len(mappings) : has(i)}
            first == CHOOSE i \in hits : \A j \in hits : i <= j
            isNew(entry) == \A d \in 1..Len(DefaultOrder) : DefaultOrder[d] # entry[1]
            added == IF custom_mappings = None THEN <<>>
                     ELSE SelectSeq(custom_mappings[1], isNew)
        IN  /\ [i \in 1..Len(mappings) |-> mappings[i][1]]
                   = DefaultOrder \o [i \in 1..Len(added) |-> added[i][1]]
            /\ hits = {} => mapped = Strip(value)
            /\ hits # {} =>
                   \E k \in 1..Len(mappings[first][2].items) :
                       /\ mappings[first][2].items[k][1] = Strip(value)
                       /\ mapped = mappings[first][2].items[k][2]

\* a value that a default category and a category added by the configuration
\* both hold got the default category's token
C9_Witness ==
    /\ mpc = "mapped"
    /\ category = None
    /\ value = "16px"
    /\ HasKey(mappings, "extra")
    /\ mapped = "var(--space-4)"

----------------------------------------------------------------------------
(* C10 *)

\* C10: in the default table no key is stored twice in a category, and a key the
\* source writes twice carries its last-written token: without a configuration,
\* a color property maps '#ffffff' to 'var(--color-background)', '#6c757d' to
\* 'var(--color-text-secondary)' and '#adb5bd' to 'var(--color-border-hover)',
\* and never to the token written earlier for the key.
C10_LastWrittenTokenKept ==
    (mpc = "mapped" /\ custom_mappings = None) =>
        /\ \A c \in 1..Len(mappings) :
               \A i, j \in 1..Len(mappings[c][2].items) :
                   mappings[c][2].items[i][1] = mappings[c][2].items[j][1] => i = j
        /\ category = Some("colors") =>
               /\ Strip(value) = "#ffffff" => mapped = "var(--color-background)"
               /\ Strip(value) = "#6c757d" => mapped = "var(--color-text-secondary)"
               /\ Strip(value) = "#adb5bd" => mapped = "var(--color-border-hover)"
               /\ mapped \notin {"var(--color-text-on-primary)", "var(--color-secondary)",
                                 "var(--color-text-muted)"}

\* a color written twice in the default table was mapped
C10_Witness ==
    /\ mpc = "mapped"
    /\ custom_mappings = None
    /\ property_name = "border-color"
    /\ value = "#adb5bd"
    /\ mapped = "var(--color-border-hover)"

----------------------------------------------------------------------------
(* C11 *)

\* the override's value for a category, when the configuration has the category
OverrideOf(cat) == Get(custom_mappings[1], cat)

\* the configuration names the category
Overrides(cat) == custom_mappings # None /\ HasKey(custom_mappings[1], cat)

\* the pairs the source writes for a default category
DefaultPairs(cat) ==
    CASE cat = "colors" -> DefaultColors
      [] cat = "spacing" -> DefaultSpacing
      [] cat = "border_radius" -> DefaultBorderRadius
      [] cat = "font_sizes" -> DefaultFontSizes
      [] cat = "font_weights" -> DefaultFontWeights
      [] cat = "shadows" -> DefaultShadows
      [] cat = "transitions" -> DefaultTransitions
      [] cat = "breakpoints" -> DefaultBreakpoints

\* C11: after construction with an override, in every default category each
\* key holds the override's token when the override has the key in that
\* category and its default token otherwise, no default key is missing, and no
\* key is there that neither wrote; a category only the override has is in the
\* table whole, as the override gave it.
C11_MergedPerCategory ==
    /\ \A n \in 1..Len(DefaultOrder) :
          LET cat == DefaultOrder[n]
              table == TableOf(cat)
              dflt == DictLiteral(DefaultPairs(cat))
          IN  /\ HasKey(mappings, cat)
              /\ \A i \in 1..Len(dflt) :
                     /\ HasKey(table, dflt[i][1])
                     /\ Get(table, dflt[i][1]) =
                            IF Overrides(cat) /\ HasKey(OverrideOf(cat).items, dflt[i][1])
                            THEN Get(OverrideOf(cat).items, dflt[i][1])
                            ELSE dflt[i][2]
              /\ \A i \in 1..Len(table) :
                     \/ HasKey(dflt, table[i][1])
                     \/ /\ Overrides(cat)
                        /\ HasKey(OverrideOf(cat).items, table[i][1])
                        /\ table[i][2] = Get(OverrideOf(cat).items, table[i][1])
    /\ custom_mappings # None =>
          \A k \in 1..Len(custom_mappings[1]) :
              (\A n \in 1..Len(DefaultOrder) : custom_mappings[1][k][1] # DefaultOrder[n])
              => /\ HasKey(mappings, custom_mappings[1][k][1])
                 /\ Get(mappings, custom_mappings[1][k][1]) = custom_mappings[1][k][2]
    /\ \A c \in 1..Len(mappings) :
          \/ \E n \in 1..Len(DefaultOrder) : mappings[c][1] = DefaultOrder[n]
          \/ Overrides(mappings[c][1])

\* the session was built with an override that changes one default color and
\* adds another, and a value has been mapped with the merged table
C11_Witness ==
    /\ mpc = "mapped"
    /\ Overrides("colors")
    /\ Get(TableOf("colors"), "#007bff") = "var(--brand)"
    /\ Get(TableOf("colors"), "#0056b3") = "var(--color-primary-hover)"
    /\ Get(TableOf("colors"), "#123456") = "var(--accent)"

----------------------------------------------------------------------------
(* C12 *)

\* the override input is malformed or unreadable: the file cannot be opened or
\* decoded, its text is not JSON, its JSON value is no object, or the object
\* has a category whose value is no table
Malformed(file) ==
    \/ file.kind \in {"unreadable", "undecodable", "invalid"}
    \/ /\ file.kind = "json"
       /\ \/ file.json.kind # "dict"
          \/ \E i \in 1..Len(file.json.items) : file.json.items[i][2].kind # "dict"

\* C12 (as stated): for every override input that is malformed or unreadable,
\* constructing the mappings does not raise and the resulting table is the
\* default table.
C12_MalformedOverrideIgnored ==
    (mpc # "new" /\ Malformed(config_file)) =>
        /\ mpc # "raised"
        /\ mappings = LoadDefaultMappings

----------------------------------------------------------------------------
(* C13 *)

\* C13 (as stated): whatever map_value, get_mappings and the caller's writes
\* into the structure get_mappings returned have done since construction, a
\* map_value call returns what the same call returned right after construction.
C13_TableImmutable ==
    mpc = "mapped" =>
        mapped = Lookup(Construct(config_file).mappings,
                        GetCategoryForProperty(property_name), Strip(value))

----------------------------------------------------------------------------
(* Properties of the classifier                                            *)

\* the elements of a sequence
Range(seq) == {seq[i] : i \in 1..Len(seq)}

\* the known prefixes and the component each names, in precedence order
KnownPrefixes ==
    << <<"btn", "button">>, <<"card", "card">>, <<"nav", "navbar">>, <<"modal", "modal">>,
       <<"form", "form">>, <<"input", "input">>, <<"table", "table">>, <<"alert", "alert">> >>

\* s without its leading '.' and spaces
Unprefixed(s) ==
    IF \E i \in 1..Len(s) : Ch(s, i) \notin {".", " "}
    THEN Sub(s, CHOOSE i \in 1..Len(s) :
                    /\ Ch(s, i) \notin {".", " "}
                    /\ \A j \in 1..(i - 1) : Ch(s, j) \in {".", " "},
             Len(s))
    ELSE ""

\* the text of s before its first '-', '_' or whitespace
FirstToken(s) ==
    IF \E i \in 1..Len(s) : IsDelimiter(Ch(s, i))
    THEN Sub(s, 1, (CHOOSE i \in 1..Len(s) :
                        /\ IsDelimiter(Ch(s, i))
                        /\ \A j \in 1..(i - 1) : ~IsDelimiter(Ch(s, j))) - 1)
    ELSE s

\* the component name the stripped selector s is to get: the first known prefix
\* decides, else the lower-cased first token, else 'component'
ComponentFor(s) ==
    IF \E n \in 1..Len(KnownPrefixes) : StartsWith(s, KnownPrefixes[n][1])
    THEN KnownPrefixes[CHOOSE n \in 1..Len(KnownPrefixes) :
                           /\ StartsWith(s, KnownPrefixes[n][1])
                           /\ \A m \in 1..(n - 1) : ~StartsWith(s, KnownPrefixes[m][1])][2]
    ELSE IF FirstToken(s) = "" THEN "component"
    ELSE Lower(FirstToken(s))

----------------------------------------------------------------------------
(* C14 *)

\* C14 (as stated): group_rules_by_component files every rule under the name
\* its selector gives with leading '.' and spaces stripped: the component of
\* the first known prefix, else the lower-cased first token, else 'component'
\* when the selector yields no token; the groups hold nothing else, and the
\* selectors .btn-primary, .btn-secondary, .card-header give button: 2 rules,
\* card: 1 rule.
C14_ComponentFromSelector ==
    components # None =>
        /\ \A k \in 1..Len(returned) :
               \E g \in 1..Len(components[1]) :
                   /\ components[1][g][1] = ComponentFor(Unprefixed(returned[k].selector))
                   /\ returned[k] \in Range(components[1][g][2])
        /\ \A g \in 1..Len(components[1]) :
               \A r \in Range(components[1][g][2]) :
                   /\ r \in Range(returned)
                   /\ components[1][g][1] = ComponentFor(Unprefixed(r.selector))
        /\ (/\ Len(returned) = 3
            /\ returned[1].selector = ".btn-primary"
            /\ returned[2].selector = ".btn-secondary"
            /\ returned[3].selector = ".card-header")
           => /\ Len(components[1]) = 2
              /\ components[1][1] = <<"button", <<returned[1], returned[2]>>>>
              /\ components[1][2] = <<"card", <<returned[3]>>>>

----------------------------------------------------------------------------
(* C15 *)

\* how many letters the stripped selector s begins with
LeadingLetters(s) ==
    CHOOSE e \in 0..Len(s) :
        /\ \A i \in 1..e : IsLetter(Ch(s, i))
        /\ e < Len(s) => ~IsLetter(Ch(s, e + 1))

\* the key the stripped selector s is to get: `name-variant` gives the
\* lower-cased name_variant, whichever of the four patterns the variant falls
\* under, and a selector of another form gives itself, lower-cased
VariantKeyFor(s) ==
    LET e == LeadingLetters(s)
    IN  IF e >= 1 /\ Ch(s, e + 1) = "-" /\ e + 1 < Len(s)
        THEN Lower(Sub(s, 1, e)) \o "_" \o Lower(Sub(s, e + 2, Len(s)))
        ELSE Lower(s)

\* C15 (as stated): extract_variants files every rule under the key of its
\* selector with leading '.' and spaces stripped: base_variant, lower-cased,
\* when the selector is {name}-{variant} for a variant of the three lists or
\* any other, else the whole lower-cased selector; the variants hold nothing
\* else, and .btn-primary, .btn-secondary, .btn-large give the keys
\* btn_primary, btn_secondary, btn_large.
C15_VariantKeyFromSelector ==
    variants # None =>
        /\ \A k \in 1..Len(returned) :
               \E g \in 1..Len(variants[1]) :
                   /\ variants[1][g][1] = VariantKeyFor(Unprefixed(returned[k].selector))
                   /\ returned[k] \in Range(variants[1][g][2])
        /\ \A g \in 1..Len(variants[1]) :
               \A r \in Range(variants[1][g][2]) :
                   /\ r \in Range(returned)
                   /\ variants[1][g][1] = VariantKeyFor(Unprefixed(r.selector))
        /\ (/\ Len(returned) = 3
            /\ returned[1].selector = ".btn-primary"
            /\ returned[2].selector = ".btn-secondary"
            /\ returned[3].selector = ".btn-large")
           => [g \in 1..Len(variants[1]) |-> variants[1][g][1]]
                  = <<"btn_primary", "btn_secondary", "btn_large">>

----------------------------------------------------------------------------
(* C16 *)

RECURSIVE CharsOf(_)
\* the characters of a text, as a sequence
CharsOf(s) == IF s = "" THEN <<>> ELSE <<Ch(s, 1)>> \o CharsOf(Sub(s, 2, Len(s)))

RECURSIVE Joined(_, _)
\* the texts of a sequence, sep between them
Joined(texts, sep) ==
    IF texts = <<>> THEN ""
    ELSE IF Len(texts) = 1 THEN texts[1]
    ELSE texts[1] \o sep \o Joined(Tail(texts), sep)

\* every character outside [A-Za-z0-9_] turned into '_'
Underscored(chars) == Joined([i \in 1..Len(chars) |-> IF IsWordCh(chars[i]) THEN chars[i] ELSE "_"], "")

\* the words of the selector: what is left between its '_' once '.' and '#'
\* are removed and every other character outside [A-Za-z0-9_] is a '_'
WordsOf(selector) ==
    LET kept(c) == c \notin {".", "#"}
        word(w) == w # ""
    IN  SelectSeq(Split(Underscored(SelectSeq(CharsOf(selector), kept)), "_"), word)

\* the name before the prefix and the lower-casing
NameFor(selector, pseudo_selector) ==
    IF pseudo_selector \in {None, Some("")} THEN Joined(WordsOf(selector), "_")
    ELSE Joined(WordsOf(selector), "_") \o "_" \o Underscored(CharsOf(pseudo_selector[1]))

----------------------------------------------------------------------------
(* C17 *)

\* the ':' at index j of s is not escaped and does not begin ':root'
SplittingColon(s, j) ==
    /\ Ch(s, j) = ":"
    /\ Ch(s, j - 1) # "\\"
    /\ Sub(s, j, j + 4) # ":root"

\* the selector and pseudo_selector the selector text s is to give
PseudoSplitFor(s) ==
    IF \E j \in 1..Len(s) : SplittingColon(s, j)
    THEN LET j == CHOOSE j \in 1..Len(s) :
                      SplittingColon(s, j) /\ \A k \in 1..(j - 1) : ~SplittingColon(s, k)
         IN  <<Strip(Sub(s, 1, j - 1)), Some(Strip(Sub(s, j + 1, Len(s))))>>
    ELSE <<s, None>>

\* C17 (as stated): under both strategies the Rule of a style rule has, as
\* selector, the trimmed text before the first unescaped ':' of the selector
\* that is not part of ':root' and, as pseudo_selector, the trimmed text after
\* it; a selector without such a ':' is kept whole, with no pseudo_selector.
C17_SplitAtFirstPseudoColon ==
    (pc = "parsed" /\ Len(sheet) = 1 /\ sheet[1].type = "STYLE_RULE" /\ Len(returned) = 1) =>
        <<returned[1].selector, returned[1].pseudo_selector>>
            = PseudoSplitFor(Strip(sheet[1].selectorText))

----------------------------------------------------------------------------
\* C18: when two conversions run in parallel through one session, each one that
\* completes holds exactly the rules and the keyframes that its parse call gives on
\* a converter of its own
C18_ConversionAsAlone ==
    \A t \in Tasks :
        tasks[t].pc = "done"
        => LET alone == ParseCall(Fresh, tasks[t].css_content, tasks[t].sheet, tasks[t].fault)
           IN  /\ tasks[t].rules = alone.rules
               /\ tasks[t].keyframes = alone.keyframes

----------------------------------------------------------------------------
(* Properties of validate_css_syntax                                       *)

\* the indices of the character c in s
IndicesOf(s, c) == {i \in 1..Len(s) : Ch(s, i) = c}

Braces(s) == IndicesOf(s, "{") \cup IndicesOf(s, "}")

\* the nearest brace before index i and after it, 0 when there is none
PrevBrace(s, i) ==
    IF \E j \in Braces(s) : j < i
    THEN CHOOSE j \in Braces(s) : j < i /\ \A k \in Braces(s) : k < i => k <= j
    ELSE 0

NextBraceAfter(s, i) ==
    IF \E j \in Braces(s) : j > i
    THEN CHOOSE j \in Braces(s) : j > i /\ \A k \in Braces(s) : k > i => k >= j
    ELSE 0

\* a selector list: something, no ';', and a name right after every colon
SelectorText(s) ==
    /\ Strip(s) # ""
    /\ IndicesOf(s, ";") = {}
    /\ \A k \in IndicesOf(s, ":") : IsLetter(Ch(s, k + 1))

\* one declaration: a name, one colon, a value
DeclarationText(s) == Cardinality(IndicesOf(s, ":")) = 1 /\ Strip(s) # ""

\* a block body: one declaration or more, each followed by its ';'
TerminatedDeclarations(body) ==
    LET pieces == Split(body, ";")
    IN  /\ Len(pieces) >= 2
        /\ Strip(pieces[Len(pieces)]) = ""
        /\ \A k \in 1..(Len(pieces) - 1) : DeclarationText(pieces[k])

\* s is a stylesheet of style rules: every '{' opens a block after a selector list,
\* the next brace is the '}' that closes it, the declarations between them are all
\* terminated, and nothing follows the last block
TerminatedStylesheet(s) ==
    /\ IndicesOf(s, "{") # {}
    /\ \A i \in IndicesOf(s, "{") :
          /\ PrevBrace(s, i) \notin IndicesOf(s, "{")
          /\ SelectorText(Sub(s, PrevBrace(s, i) + 1, i - 1))
          /\ NextBraceAfter(s, i) \in IndicesOf(s, "}")
          /\ TerminatedDeclarations(Sub(s, i + 1, NextBraceAfter(s, i) - 1))
    /\ \A j \in IndicesOf(s, "}") :
          /\ PrevBrace(s, j) \in IndicesOf(s, "{")
          /\ NextBraceAfter(s, j) = 0 => Strip(Sub(s, j + 1, Len(s))) = ""

\* C19: for a stylesheet whose braces are balanced and whose declarations are all
\* terminated by ';', whatever its line layout and its selectors,
\* validate_css_syntax returns no warning
C19_TerminatedSheetHasNoWarning ==
    (errors # None /\ TerminatedStylesheet(content)) => errors = Some(<<>>)

----------------------------------------------------------------------------
\* C20: validate_css_syntax returns an 'Unbalanced braces' warning exactly when the
\* text holds different numbers of '{' and '}', and then that warning is the first
\* element of the list returned
Unbalanced(s) == Cardinality(IndicesOf(s, "{")) # Cardinality(IndicesOf(s, "}"))

BraceWarnings(errs) == {i \in 1..Len(errs) : StartsWith(errs[i], "Unbalanced braces")}

C20_UnbalancedBracesWarnedFirst ==
    errors # None
    => /\ Unbalanced(content) <=> BraceWarnings(errors[1]) # {}
       /\ Unbalanced(content) => 1 \in BraceWarnings(errors[1])

\* unbalanced braces in a text that draws other warnings too
C20_Witness ==
    /\ errors # None
    /\ Unbalanced(content)
    /\ Len(errors[1]) >= 2
    /\ BraceWarnings(errors[1]) = {1}

----------------------------------------------------------------------------
\* C21: in a compound selector a '.' between an element name and a class name
\* separates words of the function name: for 'div.card[data-active]'
\* get_function_name_from_selector returns 'div_card_data_active'
C21_DotSeparatesWords ==
    (named # None /\ named[1] = <<"div.card[data-active]", None>>)
    => function_name = "div_card_data_active"

----------------------------------------------------------------------------
\* a block body: one declaration or more, the last one without its ';'
UnterminatedDeclarations(body) ==
    LET pieces == Split(body, ";")
    IN  \A k \in 1..Len(pieces) : DeclarationText(pieces[k])

\* s is a stylesheet of style rules, as in TerminatedStylesheet, but the last
\* declaration of one block or more is not terminated
UnterminatedStylesheet(s) ==
    /\ \A i \in IndicesOf(s, "{") :
          /\ PrevBrace(s, i) \notin IndicesOf(s, "{")
          /\ SelectorText(Sub(s, PrevBrace(s, i) + 1, i - 1))
          /\ NextBraceAfter(s, i) \in IndicesOf(s, "}")
          /\ \/ TerminatedDeclarations(Sub(s, i + 1, NextBraceAfter(s, i) - 1))
             \/ UnterminatedDeclarations(Sub(s, i + 1, NextBraceAfter(s, i) - 1))
    /\ \E i \in IndicesOf(s, "{") :
          UnterminatedDeclarations(Sub(s, i + 1, NextBraceAfter(s, i) - 1))
    /\ \A j \in IndicesOf(s, "}") :
          /\ PrevBrace(s, j) \in IndicesOf(s, "{")
          /\ NextBraceAfter(s, j) = 0 => Strip(Sub(s, j + 1, Len(s))) = ""

\* C22: for a brace-balanced stylesheet with a rule whose last declaration is not
\* terminated by ';', on one line or on several, the first element of the list
\* validate_css_syntax returns is a 'Missing semicolon' warning
C22_MissingSemicolonWarnedFirst ==
    (errors # None /\ UnterminatedStylesheet(content))
    => /\ errors[1] # <<>>
       /\ Contains(errors[1][1], "Missing semicolon")

----------------------------------------------------------------------------
\* the call was made on a sheet of @keyframes blocks only and the fallback ran on
\* its whole text, the primary strategy having recorded nothing
KeyframesOnlyFallback ==
    /\ pc = "parsed"
    /\ fault.kind = "parseString"
    /\ sheet # <<>>
    /\ \A i \in 1..Len(sheet) : sheet[i].type = "KEYFRAMES_RULE"

\* C23: in the fallback strategy every @keyframes block yields exactly one Keyframe
\* with the block's name and its non-empty stages, and no Rule: nothing returned has
\* a selector or a property built from the @keyframes text or its stages
C23_KeyframesBlockConsumed ==
    KeyframesOnlyFallback
    => /\ returned = <<>>
       /\ Len(keyframes) = Len(sheet)
       /\ \A i \in 1..Len(keyframes) :
             /\ keyframes[i].name = sheet[i].name
             /\ \A j \in 1..Len(sheet[i].cssRules) :
                    sheet[i].cssRules[j].style # <<>>
                    => /\ HasKey(keyframes[i].keyframes, sheet[i].cssRules[j].keyText)
                       /\ Get(keyframes[i].keyframes, sheet[i].cssRules[j].keyText)
                              = sheet[i].cssRules[j].style
             /\ \A k \in 1..Len(keyframes[i].keyframes) :
                    \E j \in 1..Len(sheet[i].cssRules) :
                        /\ sheet[i].cssRules[j].style # <<>>
                        /\ keyframes[i].keyframes[k][1] = sheet[i].cssRules[j].keyText

----------------------------------------------------------------------------
\* C24: when the primary strategy raises after it recorded keyframes or imports for
\* the call, parser.keyframes and parser.imports after the call are what the
\* fallback strategy alone records for the text: nothing of the aborted primary run
\* is carried over or duplicated
C24_FallbackStartsClean ==
    (pc = "parsed" /\ raised /\ ~escaped)
    => /\ keyframes = ParseWithRegex(<<>>, <<>>, css_content).keyframes
       /\ imports = ParseWithRegex(<<>>, <<>>, css_content).imports

----------------------------------------------------------------------------
RECURSIVE SelectorsOfTier(_, _, _)
\* the selectors of the rules of rs from index i on that are media-bound (media) or
\* are not (~media), in the order of rs
SelectorsOfTier(rs, i, media) ==
    IF i > Len(rs) THEN <<>>
    ELSE (IF (rs[i].media_query # None) = media THEN <<rs[i].selector>> ELSE <<>>)
         \o SelectorsOfTier(rs, i + 1, media)

RECURSIVE InOrderFrom(_, _, _, _)
\* the tokens from index i on occur in the text one after the other, from index p on
InOrderFrom(text, tokens, i, p) ==
    IF i > Len(tokens) THEN TRUE
    ELSE LET q == FindFrom(text, tokens[i], p)
         IN  q # 0 /\ InOrderFrom(text, tokens, i + 1, q + Len(tokens[i]))

\* C25: under both strategies the Rules parse returns are in document order within
\* each tier: the selectors of the Rules without media_query occur in the text in
\* the order of the Rules, so do those of the media-bound Rules, and a media-bound
\* Rule of one block never comes after a Rule of a block that is later in the text
C25_DocumentOrderPerTier ==
    (pc = "parsed" /\ ~escaped)
    => /\ InOrderFrom(css_content, SelectorsOfTier(returned, 1, FALSE), 1, 1)
       /\ InOrderFrom(css_content, SelectorsOfTier(returned, 1, TRUE), 1, 1)
       /\ \A k1, k2 \in 1..Len(returned) :
             (/\ k1 < k2
              /\ returned[k1].media_query # None
              /\ returned[k2].media_query # None)
             => FindFrom(css_content, "@media " \o returned[k1].media_query[1], 1)
                   <= FindFrom(css_content, "@media " \o returned[k2].media_query[1], 1)

\* the fallback returned two Rules or more of each tier, from two @media blocks
C25_Witness ==
    /\ pc = "parsed"
    /\ raised
    /\ ~escaped
    /\ Len(SelectorsOfTier(returned, 1, FALSE)) >= 2
    /\ \E k1, k2 \in 1..Len(returned) :
          /\ returned[k1].media_query = Some("(w:1)")
          /\ returned[k2].media_query = Some("(h:2)")

----------------------------------------------------------------------------
\* the rule has a property, and no property of it has an empty name or value
HasProperties(rule) ==
    /\ rule.properties # <<>>
    /\ \A i \in 1..Len(rule.properties) :
          rule.properties[i][1] # "" /\ rule.properties[i][2] # ""

\* every rule of every group of a grouping has a property
GroupsHaveProperties(groups) ==
    \A g \in 1..Len(groups) : \A k \in 1..Len(groups[g][2]) : HasProperties(groups[g][2][k])

\* C26: every Rule parse returns, under either strategy and from inside @media too,
\* has at least one property and only non-empty property names and values; so no
\* group that group_rules_by_component or extract_variants builds from the result
\* holds a Rule with empty properties
C26_NoDegenerateRule ==
    /\ (pc = "parsed" /\ ~escaped) => \A k \in 1..Len(returned) : HasProperties(returned[k])
    /\ components # None => GroupsHaveProperties(components[1])
    /\ variants # None => GroupsHaveProperties(variants[1])

\* a sheet with declarations that lack a name or a value was parsed and its Rules
\* were grouped both ways
C26_Witness ==
    /\ pc = "parsed"
    /\ ~escaped
    /\ \E i \in 1..Len(sheet) :
          /\ sheet[i].type = "STYLE_RULE"
          /\ \E j \in 1..Len(sheet[i].style) : sheet[i].style[j][2] = ""
    /\ returned # <<>>
    /\ components # None /\ components[1] # <<>>
    /\ variants # None /\ variants[1] # <<>>

----------------------------------------------------------------------------
RECURSIVE RulesOfKey(_, _, _, _)
\* the rules of rs from index i on whose key is key, in the order of rs
RulesOfKey(rs, keys, i, key) ==
    IF i > Len(rs) THEN <<>>
    ELSE (IF keys[i] = key THEN <<rs[i]>> ELSE <<>>) \o RulesOfKey(rs, keys, i + 1, key)

RECURSIVE TotalLen(_, _)
\* how many rules the groups from index g on hold together
TotalLen(groups, g) ==
    IF g > Len(groups) THEN 0 ELSE Len(groups[g][2]) + TotalLen(groups, g + 1)

\* the groups partition the rules rs, whose keys are keys: no key twice, no group
\* empty, every group the rules of its key in their order in rs, every rule's
\* key a group, and as many rules in the groups as in rs
Partitions(groups, rs, keys) ==
    /\ \A g1, g2 \in 1..Len(groups) : groups[g1][1] = groups[g2][1] => g1 = g2
    /\ \A g \in 1..Len(groups) :
          /\ groups[g][2] # <<>>
          /\ groups[g][2] = RulesOfKey(rs, keys, 1, groups[g][1])
    /\ \A k \in 1..Len(rs) : \E g \in 1..Len(groups) : groups[g][1] = keys[k]
    /\ TotalLen(groups, 1) = Len(rs)

\* C27: group_rules_by_component and extract_variants each partition the rules
\* they are given: every rule is once in the group of its key and in no other, no
\* group is empty, the groups hold as many rules as the input, and the rules of a
\* group are in the order they had in the input
C27_GroupingPartitions ==
    /\ components # None
       => Partitions(components[1], returned,
                     [k \in 1..Len(returned) |-> ExtractComponentName(returned[k].selector)])
    /\ variants # None
       => Partitions(variants[1], returned,
                     [k \in 1..Len(returned) |->
                          VariantKey(SplitVariantName(returned[k].selector))])

\* both groupings were made of rules whose groups interleave, and a group of each
\* holds two rules or more
C27_Witness ==
    /\ components # None
    /\ variants # None
    /\ \E g \in 1..Len(components[1]) : Len(components[1][g][2]) >= 2
    /\ \E g \in 1..Len(variants[1]) : Len(variants[1][g][2]) >= 2
    /\ \E k \in 2..(Len(returned) - 1) :
          /\ ExtractComponentName(returned[k].selector)
                 # ExtractComponentName(returned[k - 1].selector)
          /\ ExtractComponentName(returned[k + 1].selector)
                 = ExtractComponentName(returned[k - 1].selector)

----------------------------------------------------------------------------
(* The functions convert_string returns                                    *)

\* a `property: value;` line of the combined CSS of a function
DeclarationLine(line) == Contains(line, ":") /\ EndsWithSemicolon(Strip(line))

\* line i of the combined CSS against line i after the mappings: a declaration
\* keeps what is before its colon, every other line is kept whole
LineKept(before, after, i) ==
    IF DeclarationLine(before[i])
    THEN Split1(after[i], ":")[1] = Split1(before[i], ":")[1]
    ELSE after[i] = before[i]

LinesKept(before, after) ==
    /\ Len(after) = Len(before)
    /\ \A i \in 1..Len(before) : LineKept(before, after, i)

\* the lines that are no declarations are in the function that was generated
LinesEmitted(before, text) ==
    \A i \in 1..Len(before) : DeclarationLine(before[i]) \/ Contains(text, Strip(before[i]))

\* C28: in every function convert_string returned, applying the mappings
\* changed nothing but the value part of `property: value;` lines: selector
\* lines, @media and @keyframes lines, stage keys and closing braces of the
\* combined CSS are the same after it, and are in the generated function
C28_OnlyValuesChange ==
    functions # None =>
        \A g \in 1..Len(functions[1]) :
            /\ LinesKept(Split(functions[1][g][2].css_content, "\n"),
                         Split(functions[1][g][2].mapped_css, "\n"))
            /\ LinesEmitted(Split(functions[1][g][2].css_content, "\n"),
                            functions[1][g][2].text)

\* the names of the functions whose rules include rule k of what parse returned
FunctionsOf(fs, rule) == {g \in 1..Len(fs) : \E j \in 1..Len(fs[g][2].rules) : fs[g][2].rules[j] = rule}

\* C29: every Rule parse returned is among the rules of exactly one of the
\* functions convert_string returned: no rule is dropped because two variant
\* keys derive one function name or because a keyframe function took the name
\* of a style function
C29_EveryRuleInOneFunction ==
    functions # None =>
        \A k \in 1..Len(returned) : Cardinality(FunctionsOf(functions[1], returned[k])) = 1

----------------------------------------------------------------------------
(* The statistics analyze_css returns                                      *)

RECURSIVE MaxProperties(_)
\* the largest number of declarations of a rule
MaxProperties(rs) ==
    IF rs = <<>> THEN 0
    ELSE IF Len(Head(rs).properties) > MaxProperties(Tail(rs))
         THEN Len(Head(rs).properties) ELSE MaxProperties(Tail(rs))

\* the declarations of the rules: rule k, declaration j
Declarations(rs) == {d \in (1..Len(rs)) \X (1..MaxProperties(rs)) : d[2] <= Len(rs[d[1]].properties)}

\* the declared values map_value changes under the property they are declared under
MappedDeclarations(m, rs) ==
    {d \in Declarations(rs) :
        MapValueOf(m, rs[d[1]].properties[d[2]][1], rs[d[1]].properties[d[2]][2])
            # rs[d[1]].properties[d[2]][2]}

\* C30: the statistics analyze_css returned count as mappable the declared
\* values that map_value changes under their own property, the coverage is
\* that count over the number of declared values, and the mapping table and
\* the rules parse returned are as they were
C30_MappableValuesCounted ==
    stats # None =>
        /\ stats[1].mappable_values = Cardinality(MappedDeclarations(mappings, returned))
        /\ stats[1].mapping_coverage =
              MappingCoverage(Cardinality(MappedDeclarations(mappings, returned)),
                              Cardinality(Declarations(returned)))
        /\ mappings = NewValueMappings(None)
        /\ returned = ParseCall(prior, css_content, sheet, fault).rules

====
